---------------------------- MODULE Spec2Model ----------------------------
(***************************************************************************)
(* A model of ts-chan: the Chan channel (test/chan.test.ts:885-1271, the   *)
(* copy of src/chan.ts shipped with the sources), its CircularBuffer, and  *)
(* the Select multiplexer (src/select.ts).                                *)
(*                                                                         *)
(* JavaScript is single-threaded: every action below is one synchronous    *)
(* run-to-completion piece of code (a public method call, an abort event,  *)
(* a microtask continuation).  Method bodies are translated as operators   *)
(* over a record w that holds the whole mutable heap, so that a method can *)
(* call callbacks which in turn mutate other objects.                      *)
(***************************************************************************)
EXTENDS Integers, Sequences, FiniteSets, TLC

\* ----------------------------------------------------------------- bounds
MaxCap == 2
MaxOps == 3
\* the Select specification: buffer sizes, calls of poll/wait, peer operations
MaxSelCap == 1
MaxCalls == 2
\* the longest sequence whose shuffles are counted
MaxShuffle == 3
MaxPeers == 1

\* ------------------------------------------------------------- constants

\* JavaScript undefined, and the value produced by newDefaultValue().
Undefined == 0
DefaultValue == -1

NoErr == ""
SendOnClosedChannelError == "SendOnClosedChannelError"
CloseOfClosedChannelError == "CloseOfClosedChannelError"
AbortReason == "AbortReason"
UserError == "UserError"
\* The error object that the throwing user callback of operation id throws:
\* every callback throws an error of its own.
UserErrorOf(id) == UserError \o ToString(id)
MisuseError == "ts-chan: select: channel protocol misuse: callback called after remove"
InUseError == "ts-chan: select: cases in use"
ThenCalledAfterStopError == "ts-chan: select: normal internal error that should never bubble: then called after stop"
NotReadyError == "ts-chan: select: case not ready"
NotReceivableError == "ts-chan: select: case not receivable"
NeverError == "ts-chan: select: unexpected error that should never happen"
NotFoundError == "ts-chan: select: case not found"
CaseReusedError == "ts-chan: select: case reused"
ExternalError == "external value rejected"
BufferFullError == "js-chan: buffer full"

VARIABLES
    \* ---- Chan, one entry per channel
    capacity,         \* [Chans -> Nat]      constructor argument
    newDefaultValue,  \* [Chans -> BOOLEAN]  is a default factory configured
    buffer,           \* [Chans -> CircularBuffer record]
    open,             \* [Chans -> BOOLEAN]
    sends,            \* [Chans -> Seq(callback)]
    recvs,            \* [Chans -> Seq(callback)]
    \* ---- users of the channels
    ops,              \* Seq(op): every send/recv promise and user callback
    accepted,         \* history: values accepted from senders, per channel
    delivered,        \* history: values handed to receivers, per channel
    \* ---- Select (one instance), src/select.ts
    cases,            \* Seq(case): the constructor argument, by caseIndex
    cs,               \* Seq(case state): ok, next, cscb/crcb, pidx, ...
    pending,          \* #pending, as a sequence of case indexes
    waiting,          \* #waiting
    reshuffle,        \* #reshuffle
    next,             \* #next (0 when undefined)
    semaphore,        \* #semaphore.token (NoToken when undefined)
    waits,            \* Seq(wait): every call of Select.wait
    exprs,            \* number of times a send case's expr was evaluated
    fired,            \* history: locked callbacks that ran under their token
    \* ---- src/yield.ts
    yieldGeneration,
    yieldPromise,     \* the handle that is pending (0 when undefined)
    yieldResolve,     \* the handle whose resolve is kept (0 when undefined)
    yieldHandles,     \* Seq: every handle created, "pending" or "resolved"
    macrotasks,       \* number of yieldComplete macrotasks scheduled
    \* ---- src/case.ts and the constructor of Select
    records,          \* Seq(case record): every record made by recv/send/wait
    selects           \* Seq: every call of new Select(input) and its outcome

chanVars == <<capacity, newDefaultValue, buffer, open, sends, recvs>>
userVars == <<ops, accepted, delivered>>
selectVars == <<cases, cs, pending, waiting, reshuffle, next, semaphore, waits,
                exprs, fired>>
yieldVars == <<yieldGeneration, yieldPromise, yieldResolve, yieldHandles,
               macrotasks>>
consVars == <<records, selects>>
vars == <<chanVars, userVars, selectVars, yieldVars, consVars>>

\* The channels that were constructed.
Chans == DOMAIN capacity

\* The value of the n-th evaluation of a send case's expr (channel operations
\* send their own number, 1..MaxOps).
ExprValue(n) == MaxOps + n

\* The value the external value of case i resolves with, and the reason it
\* is rejected with.
ExternalValue(i) == 2 * MaxOps + i
ExternalReason(i) == 3 * MaxOps + i

\* The mutable heap as one record.
W == [buffer |-> buffer, open |-> open, sends |-> sends, recvs |-> recvs,
      ops |-> ops, accepted |-> accepted, delivered |-> delivered,
      cs |-> cs, pending |-> pending, waiting |-> waiting,
      reshuffle |-> reshuffle, next |-> next, semaphore |-> semaphore,
      waits |-> waits, exprs |-> exprs, fired |-> fired,
      yieldGeneration |-> yieldGeneration, yieldPromise |-> yieldPromise,
      yieldResolve |-> yieldResolve, yieldHandles |-> yieldHandles,
      macrotasks |-> macrotasks]

\* The heap is computed once, then assigned.
Commit(w) ==
    \E h \in {w} :
        /\ buffer' = h.buffer
        /\ open' = h.open
        /\ sends' = h.sends
        /\ recvs' = h.recvs
        /\ ops' = h.ops
        /\ accepted' = h.accepted
        /\ delivered' = h.delivered
        /\ cs' = h.cs
        /\ pending' = h.pending
        /\ waiting' = h.waiting
        /\ reshuffle' = h.reshuffle
        /\ next' = h.next
        /\ semaphore' = h.semaphore
        /\ waits' = h.waits
        /\ exprs' = h.exprs
        /\ fired' = h.fired
        /\ yieldGeneration' = h.yieldGeneration
        /\ yieldPromise' = h.yieldPromise
        /\ yieldResolve' = h.yieldResolve
        /\ yieldHandles' = h.yieldHandles
        /\ macrotasks' = h.macrotasks
        /\ UNCHANGED <<capacity, newDefaultValue, cases, consVars>>

\* The outcome of a call: the heap after it, whether it threw (and what),
\* the value it returned and a boolean it returned.
Res(w, threw, err, val, flag) ==
    [w |-> w, threw |-> threw, err |-> err, val |-> val, flag |-> flag]
Return(w, val, flag) == Res(w, FALSE, NoErr, val, flag)
Throw(w, err) == Res(w, TRUE, err, Undefined, FALSE)

\* const v = ...; F(v): the value is computed once and then used.
Bind(v, F(_)) == CHOOSE r \in {F(x) : x \in {v}} : TRUE

\* ------------------------------------------------------- CircularBuffer
NewCircularBuffer(cap) ==
    [buffer |-> [i \in 1..cap |-> Undefined], head |-> 0, tail |-> 0, size |-> 0]

BufCapacity(b) == Len(b.buffer)
empty(b) == b.size = 0
\* A variant of full that is off by one: full only beyond the capacity.
fullBeyond(b) == b.size > BufCapacity(b)
full(b) == b.size = BufCapacity(b)

\* push: throws when full, else stores at tail and advances it.
push(b, item) ==
    IF b.size >= BufCapacity(b)
    THEN [b |-> b, threw |-> TRUE]
    ELSE [b |-> [b EXCEPT !.buffer[b.tail + 1] = item,
                          !.tail = (b.tail + 1) % BufCapacity(b),
                          !.size = b.size + 1],
          threw |-> FALSE]

\* A variant of shift that takes the newest item (the slot before tail)
\* instead of the oldest.
shiftNewest(b) ==
    IF empty(b)
    THEN [b |-> b, item |-> Undefined]
    ELSE [b |-> [b EXCEPT !.buffer[((b.tail + BufCapacity(b) - 1)
                                       % BufCapacity(b)) + 1] = Undefined,
                          !.tail = (b.tail + BufCapacity(b) - 1) % BufCapacity(b),
                          !.size = b.size - 1],
          item |-> b.buffer[((b.tail + BufCapacity(b) - 1) % BufCapacity(b)) + 1]]

\* shift: the oldest item (undefined when empty), slot cleared, head advanced.
shift(b) ==
    IF empty(b)
    THEN [b |-> b, item |-> Undefined]
    ELSE [b |-> [b EXCEPT !.buffer[b.head + 1] = Undefined,
                          !.head = (b.head + 1) % BufCapacity(b),
                          !.size = b.size - 1],
          item |-> b.buffer[b.head + 1]]

\* The buffered items, oldest first (read through head/size as shift would).
BufItems(b) ==
    [i \in 1..b.size |-> b.buffer[((b.head + i - 1) % BufCapacity(b)) + 1]]

\* Chan.length
length(c) == IF capacity[c] = 0 THEN 0 ELSE buffer[c].size

\* Chan.concurrency
concurrency(c) == Len(sends[c]) - Len(recvs[c])

\* ------------------------------------------------------------ callbacks
\* A callback is a closure: kind says who made it ("chan": Chan.send/recv,
\* "user": a caller of addSender/addReceiver, "sel": a Select case), id is the
\* operation or case it belongs to, tok the stop token bound into it.
Callback(kind, id) == [kind |-> kind, id |-> id, tok |-> 0]

\* The record of one operation on a channel.  For Chan.send / Chan.recv it is
\* the promise (st, val, done, err) and its abort signal; for a user callback
\* given to addSender / addReceiver it is what the callback saw (st is
\* "resolved" once called with ok = true, "rejected" once called with
\* ok = false; val, done, err are the arguments); ret and thrown are what
\* the synchronous call itself returned or threw.
NewOp(kind, c, signal, throws) ==
    [kind |-> kind, ch |-> c, st |-> "pending", val |-> Undefined,
     done |-> FALSE, err |-> NoErr, signal |-> signal, listening |-> FALSE,
     throws |-> throws, calls |-> 0, ret |-> "", thrown |-> NoErr]

\* Record what the synchronous call that created operation id returned.
Returned(r, id) ==
    [r.w EXCEPT !.ops[id].ret = IF r.threw THEN "threw"
                                ELSE IF r.flag THEN "true" ELSE "false",
                !.ops[id].thrown = r.err]

\* promise resolve / reject: only the first settlement counts.
Resolve(w, id, val, done) ==
    IF w.ops[id].st = "pending"
    THEN [w EXCEPT !.ops[id].st = "resolved", !.ops[id].val = val,
                   !.ops[id].done = done]
    ELSE w
Reject(w, id, err) ==
    IF w.ops[id].st = "pending"
    THEN [w EXCEPT !.ops[id].st = "rejected", !.ops[id].err = err]
    ELSE w

\* The sender callback built by Chan.send.
SendCallback(w, id, err, ok) ==
    LET w1 == [w EXCEPT !.ops[id].listening = FALSE,
                        !.ops[id].calls = @ + 1]
    IN IF ~ok
       THEN Throw(Reject(w1, id, err), err)
       ELSE Return(Resolve(w1, id, Undefined, FALSE), id, TRUE)

\* The receiver callback built by Chan.recv.
RecvCallback(w, id, value, ok) ==
    LET c == w.ops[id].ch
        w1 == [w EXCEPT !.ops[id].calls = @ + 1]
        w2 == IF ok
              THEN Resolve(w1, id, value, FALSE)
              ELSE Resolve(w1, id,
                           IF newDefaultValue[c] THEN DefaultValue ELSE Undefined,
                           TRUE)
    IN Return([w2 EXCEPT !.ops[id].listening = FALSE], Undefined, FALSE)

\* A sender callback written by a user of addSender: it returns its value
\* when ok, rethrows err when not ok; a throwing one throws its own error.
UserSenderCallback(w, id, err, ok) ==
    LET w1 == [w EXCEPT !.ops[id].calls = @ + 1,
                        !.ops[id].st = IF ok THEN "resolved" ELSE "rejected",
                        !.ops[id].err = err]
    IN IF w.ops[id].throws THEN Throw(w1, UserErrorOf(id))
       ELSE IF ok THEN Return(w1, id, TRUE)
       ELSE Throw(w1, err)

\* A receiver callback written by a user of addReceiver.
UserReceiverCallback(w, id, value, ok) ==
    LET w1 == [w EXCEPT !.ops[id].calls = @ + 1,
                        !.ops[id].st = "resolved",
                        !.ops[id].val = value,
                        !.ops[id].done = ~ok]
    IN IF w.ops[id].throws THEN Throw(w1, UserErrorOf(id))
       ELSE Return(w1, Undefined, FALSE)

\* ------------------------------------------------------ Chan: removal
NoCallback == Callback("none", 0)

ClosedValue(c) == IF newDefaultValue[c] THEN DefaultValue ELSE Undefined

\* Array.prototype.lastIndexOf(x, -1): the highest index holding x, 0 if none.
LastIndexOf(s, x) ==
    LET hits == {i \in 1..Len(s) : s[i] = x}
    IN IF hits = {} THEN 0 ELSE CHOOSE i \in hits : \A j \in hits : j <= i

\* Array.prototype.splice(i, 1)
Splice(s, i) == [j \in 1..(Len(s) - 1) |-> IF j < i THEN s[j] ELSE s[j + 1]]

\* A variant of the removal that takes out the first occurrence.
removeFromFirst(q, cb) ==
    IF \A k \in 1..Len(q) : q[k] # cb THEN q
    ELSE Splice(q, CHOOSE i \in 1..Len(q) :
                       q[i] = cb /\ \A j \in 1..(i - 1) : q[j] # cb)

removeFrom(q, cb) ==
    IF Len(q) = 0 THEN q
    ELSE IF q[Len(q)] = cb THEN SubSeq(q, 1, Len(q) - 1)
    ELSE LET i == LastIndexOf(q, cb)
         IN IF i # 0 THEN Splice(q, i) ELSE q

removeReceiver(w, c, cb) == [w EXCEPT !.recvs[c] = removeFrom(@, cb)]

\* A variant of removeSender that leaves the queue as it is.
removeSenderNot(w, c, cb) == w

removeSender(w, c, cb) == [w EXCEPT !.sends[c] = removeFrom(@, cb)]

\* ------------------------------------------- Select: token and callbacks
\* A stop token is an object; id is its identity (0: the slot is empty).
NoToken == [id |-> 0, stop |-> FALSE]

\* A promise: pending, or settled with a value or with an error.
PendingPromise == [st |-> "pending", val |-> Undefined, err |-> NoErr]
Settle(p, st, val, err) ==
    IF p.st = "pending" THEN [st |-> st, val |-> val, err |-> err] ELSE p

\* Case indexes count from 1 here (caseIndex + 1), 0 stands for undefined;
\* the same holds for pidx and for the values of poll and wait.
\* For an external-value case, pval is the state of the value given to the
\* constructor ("none" for a channel case), wait that of the promise s.wait
\* built from it, and conts the waits whose then has left a continuation on
\* s.wait.
NewCaseState ==
    [ok |-> "undefined", next |-> Undefined, cb |-> NoCallback, pidx |-> 0,
     pend |-> 0, pval |-> "none", wait |-> "none", conts |-> {}]

\* pendingResolve?.(i) / pendingReject?.(e) of case i: they settle the promise
\* that the case's then built for the wait cs[i].pend, which Promise.race
\* forwards to the promise of the race (first settlement wins).
pendingResolve(w, i) ==
    LET id == w.cs[i].pend
    IN IF id = 0 THEN w
       ELSE [w EXCEPT !.waits[id].inner = Settle(@, "resolved", i, NoErr)]
pendingReject(w, i, e) ==
    LET id == w.cs[i].pend
    IN IF id = 0 THEN w
       ELSE [w EXCEPT !.waits[id].inner = Settle(@, "rejected", Undefined, e)]

\* The sweep of #stop over #pending, from position k.
RECURSIVE stopSweep(_, _)
stopSweep(w, k) ==
    IF k > Len(w.pending) THEN w
    ELSE LET i == w.pending[k]
             cb == w.cs[i].cb
             c == cases[i].ch
             w1 == IF cb = NoCallback THEN w
                   ELSE IF cases[i].type = "Sender"
                   THEN [removeSender(w, c, cb) EXCEPT !.cs[i].cb = NoCallback]
                   ELSE [removeReceiver(w, c, cb) EXCEPT !.cs[i].cb = NoCallback]
         IN stopSweep(w1, k + 1)

\* A variant of #stop that gives up the token without sweeping the pending
\* cases.
stopNoSweep(w, token) ==
    IF w.semaphore # token \/ ~token.stop THEN w
    ELSE [w EXCEPT !.semaphore = NoToken]

\* A variant of #stop that removes the callbacks and leaves the token in
\* its slot.
stopKeepToken(w, token) ==
    IF w.semaphore # token \/ ~token.stop THEN w
    ELSE stopSweep(w, 1)

\* Select.#stop(id)
stop(w, token) ==
    IF w.semaphore # token \/ ~token.stop THEN w
    ELSE [stopSweep(w, 1) EXCEPT !.semaphore = NoToken]

\* The token object whose identity a locked callback carries (the token is
\* only looked at when it is the one in the slot).
TokenOf(w, tok) == IF w.semaphore.id = tok THEN w.semaphore ELSE NoToken

Fire(w, i, tok, ok) ==
    [w EXCEPT !.fired = Append(@, [tok |-> tok, case |-> i, ok |-> ok])]

\* A variant of s.lscb that evaluates expr before it looks at ok.
lscbEager(w, i, tok, err, ok) ==
    IF tok # w.semaphore.id THEN Throw(w, MisuseError)
    ELSE LET w1 == Fire([w EXCEPT !.cs[i].cb = NoCallback, !.exprs = @ + 1],
                        i, tok, ok)
         IN IF ~ok
            THEN Throw([pendingReject(w1, i, err) EXCEPT !.cs[i].pend = 0], err)
            ELSE LET w2 == stop(w1, TokenOf(w1, tok))
                     w3 == [w2 EXCEPT !.cs[i].ok = "true"]
                 IN Return([pendingResolve(w3, i) EXCEPT !.cs[i].pend = 0],
                           ExprValue(w3.exprs), TRUE)

\* s.lscb of send case i, bound to the token tok
lscb(w, i, tok, err, ok) ==
    IF tok # w.semaphore.id THEN Throw(w, MisuseError)
    ELSE LET w1 == Fire([w EXCEPT !.cs[i].cb = NoCallback], i, tok, ok)
         IN IF ~ok
            THEN Throw([pendingReject(w1, i, err) EXCEPT !.cs[i].pend = 0], err)
            ELSE LET w2 == stop(w1, TokenOf(w1, tok))
                     w3 == [w2 EXCEPT !.exprs = @ + 1, !.cs[i].ok = "true"]
                 IN Return([pendingResolve(w3, i) EXCEPT !.cs[i].pend = 0],
                           ExprValue(w3.exprs), TRUE)

\* A variant of s.lrcb that does not look at its token.
lrcbUnchecked(w, i, tok, val, ok) ==
    LET w1 == Fire([w EXCEPT !.cs[i].cb = NoCallback], i, tok, ok)
        w2 == [w1 EXCEPT !.cs[i].next = val,
                         !.cs[i].ok = IF ok THEN "true" ELSE "false"]
        w3 == stop(w2, TokenOf(w2, tok))
    IN Return([pendingResolve(w3, i) EXCEPT !.cs[i].pend = 0], Undefined, FALSE)

\* s.lrcb of receive case i, bound to the token tok
lrcb(w, i, tok, val, ok) ==
    IF tok # w.semaphore.id THEN Throw(w, MisuseError)
    ELSE LET w1 == Fire([w EXCEPT !.cs[i].cb = NoCallback], i, tok, ok)
             w2 == [w1 EXCEPT !.cs[i].next = val,
                              !.cs[i].ok = IF ok THEN "true" ELSE "false"]
             w3 == stop(w2, TokenOf(w2, tok))
         IN Return([pendingResolve(w3, i) EXCEPT !.cs[i].pend = 0],
                   Undefined, FALSE)

\* callback(err, ok) for a SenderCallback
InvokeSender(w, cb, err, ok) ==
    IF cb.kind = "chan" THEN SendCallback(w, cb.id, err, ok)
    ELSE IF cb.kind = "sel" THEN lscb(w, cb.id, cb.tok, err, ok)
    ELSE UserSenderCallback(w, cb.id, err, ok)

\* callback(value, ok) for a ReceiverCallback
InvokeReceiver(w, cb, value, ok) ==
    IF cb.kind = "chan" THEN RecvCallback(w, cb.id, value, ok)
    ELSE IF cb.kind = "sel" THEN lrcb(w, cb.id, cb.tok, value, ok)
    ELSE UserReceiverCallback(w, cb.id, value, ok)

\* History bookkeeping: a value was taken from a sender / handed to a receiver.
Accept(w, c, v) == [w EXCEPT !.accepted[c] = Append(@, v)]
Deliver(w, c, v) == [w EXCEPT !.delivered[c] = Append(@, v)]


\* ------------------------------------------------------------------ Chan
\* A variant of #fillBuffer that moves no sender.
fillBufferNot(w, c) == Return(w, Undefined, FALSE)

\* #fillBuffer: move queued senders into free buffer slots.  A sender that
\* throws has already been shifted off the queue; the exception propagates.
RECURSIVE fillBuffer(_, _)
fillBuffer(w, c) ==
    IF capacity[c] = 0 THEN Return(w, Undefined, FALSE)
    ELSE IF ~full(w.buffer[c]) /\ Len(w.sends[c]) # 0
    THEN Bind(InvokeSender([w EXCEPT !.sends[c] = Tail(@)], Head(w.sends[c]),
                           NoErr, TRUE),
              LAMBDA r :
                  IF r.threw THEN r
                  ELSE IF push(r.w.buffer[c], r.val).threw
                  THEN Throw(r.w, BufferFullError)
                  ELSE fillBuffer(Accept([r.w EXCEPT !.buffer[c] =
                                             push(r.w.buffer[c], r.val).b],
                                         c, r.val), c))
    ELSE Return(w, Undefined, FALSE)

\* A variant of trySend on an open channel that looks at the buffer before
\* it looks at the receivers.
trySendBufferFirst(w, c, value) ==
    Bind(fillBuffer(w, c),
         LAMBDA f :
             IF f.threw THEN f
             ELSE IF capacity[c] # 0 /\ ~full(f.w.buffer[c])
             THEN Return(Accept([f.w EXCEPT !.buffer[c] =
                                    push(f.w.buffer[c], value).b], c, value),
                         Undefined, TRUE)
             ELSE IF Len(f.w.recvs[c]) # 0
             THEN Bind(InvokeReceiver(Deliver(Accept([f.w EXCEPT !.recvs[c] = Tail(@)],
                                                     c, value), c, value),
                                      Head(f.w.recvs[c]), value, TRUE),
                       LAMBDA r : IF r.threw THEN r ELSE Return(r.w, Undefined, TRUE))
             ELSE Return(f.w, Undefined, FALSE))

\* trySend on an open channel.
trySendOpen(w, c, value) ==
    IF Len(w.recvs[c]) # 0
    THEN Bind(InvokeReceiver(Deliver(Accept([w EXCEPT !.recvs[c] = Tail(@)],
                                            c, value), c, value),
                             Head(w.recvs[c]), value, TRUE),
              LAMBDA r : IF r.threw THEN r ELSE Return(r.w, Undefined, TRUE))
    ELSE Bind(fillBuffer(w, c),
              LAMBDA f :
                  IF f.threw THEN f
                  ELSE IF capacity[c] # 0 /\ ~full(f.w.buffer[c])
                  THEN Return(Accept([f.w EXCEPT !.buffer[c] =
                                         push(f.w.buffer[c], value).b], c, value),
                              Undefined, TRUE)
                  ELSE Return(f.w, Undefined, FALSE))

\* A variant of trySend without the check that the channel is open.
trySendUnchecked(w, c, value) == trySendOpen(w, c, value)

trySend(w, c, value) ==
    IF ~w.open[c] THEN Throw(w, SendOnClosedChannelError)
    ELSE trySendOpen(w, c, value)

\* A variant of Chan.send that does not look at the signal before it tries
\* to send.
sendUnchecked(w, c, id) ==
    Bind(trySend(w, c, id),
         LAMBDA t :
             IF t.threw THEN Reject(t.w, id, t.err)
             ELSE IF t.flag THEN Resolve(t.w, id, Undefined, FALSE)
             ELSE [t.w EXCEPT !.ops[id].listening = (w.ops[id].signal # "none"),
                              !.sends[c] = Append(@, Callback("chan", id))])

\* Chan.send(value, abort): the promise is ops[id]; the value sent is id.
send(w, c, id) ==
    IF w.ops[id].signal = "aborted" THEN Reject(w, id, AbortReason)
    ELSE Bind(trySend(w, c, id),
              LAMBDA t :
                  IF t.threw THEN Reject(t.w, id, t.err)
                  ELSE IF t.flag THEN Resolve(t.w, id, Undefined, FALSE)
                  ELSE [t.w EXCEPT !.ops[id].listening = (w.ops[id].signal # "none"),
                                   !.sends[c] = Append(@, Callback("chan", id))])

\* tryRecv: some = FALSE models the undefined return value.
RecvResult(w, some, val, done) ==
    [w |-> w, threw |-> FALSE, err |-> NoErr, val |-> val, flag |-> done,
     some |-> some]
RecvThrow(r) ==
    [w |-> r.w, threw |-> TRUE, err |-> r.err, val |-> Undefined,
     flag |-> FALSE, some |-> FALSE]

\* tryRecv after its first #fillBuffer, whose outcome is f.
tryRecvFilled(f, c) ==
    IF f.threw THEN RecvThrow(f)
    ELSE IF capacity[c] # 0 /\ ~empty(f.w.buffer[c])
    THEN Bind(fillBuffer([f.w EXCEPT !.buffer[c] = shift(f.w.buffer[c]).b], c),
              LAMBDA g :
                  IF g.threw THEN RecvThrow(g)
                  ELSE RecvResult(Deliver(g.w, c, shift(f.w.buffer[c]).item),
                                  TRUE, shift(f.w.buffer[c]).item, FALSE))
    ELSE IF Len(f.w.sends[c]) # 0
    THEN Bind(InvokeSender([f.w EXCEPT !.sends[c] = Tail(@)], Head(f.w.sends[c]),
                           NoErr, TRUE),
              LAMBDA r :
                  IF r.threw THEN RecvThrow(r)
                  ELSE RecvResult(Deliver(Accept(r.w, c, r.val), c, r.val),
                                  TRUE, r.val, FALSE))
    ELSE IF ~f.w.open[c]
    THEN RecvResult(f.w, TRUE, ClosedValue(c), TRUE)
    ELSE RecvResult(f.w, FALSE, Undefined, FALSE)

tryRecv(w, c) == Bind(fillBuffer(w, c), LAMBDA f : tryRecvFilled(f, c))

\* The tail of the add methods: a callback's exception propagates, else the
\* method returns false.
ReturnFalse(r) == IF r.threw THEN r ELSE Return(r.w, Undefined, FALSE)

\* addReceiver after its first #fillBuffer, whose outcome is f.
addReceiverFilled(f, c, callback) ==
    IF f.threw THEN f
    ELSE IF capacity[c] # 0 /\ ~empty(f.w.buffer[c])
    THEN Bind(InvokeReceiver(Deliver([f.w EXCEPT !.buffer[c] =
                                         shift(f.w.buffer[c]).b],
                                     c, shift(f.w.buffer[c]).item),
                             callback, shift(f.w.buffer[c]).item, TRUE),
              LAMBDA r : IF r.threw THEN r ELSE ReturnFalse(fillBuffer(r.w, c)))
    ELSE IF Len(f.w.sends[c]) # 0
    THEN Bind(InvokeSender([f.w EXCEPT !.sends[c] = Tail(@)], Head(f.w.sends[c]),
                           NoErr, TRUE),
              LAMBDA s :
                  IF s.threw THEN s
                  ELSE ReturnFalse(InvokeReceiver(
                           Deliver(Accept(s.w, c, s.val), c, s.val),
                           callback, s.val, TRUE)))
    ELSE IF ~f.w.open[c]
    THEN ReturnFalse(InvokeReceiver(f.w, callback, ClosedValue(c), FALSE))
    ELSE Return([f.w EXCEPT !.recvs[c] = Append(@, callback)], Undefined, TRUE)

addReceiver(w, c, callback) ==
    Bind(fillBuffer(w, c), LAMBDA f : addReceiverFilled(f, c, callback))

\* A variant of addSenderFilled that, having stored the sender's value,
\* falls through and enqueues the callback as well.
addSenderFilledFallThrough(f, c, callback) ==
    IF f.threw THEN f
    ELSE IF capacity[c] # 0 /\ ~full(f.w.buffer[c])
    THEN Bind(InvokeSender(f.w, callback, NoErr, TRUE),
              LAMBDA s :
                  IF s.threw THEN s
                  ELSE IF push(s.w.buffer[c], s.val).threw
                  THEN Throw(s.w, BufferFullError)
                  ELSE Return(Accept([s.w EXCEPT !.buffer[c] =
                                         push(s.w.buffer[c], s.val).b,
                                                 !.sends[c] = Append(@, callback)],
                                     c, s.val),
                              Undefined, TRUE))
    ELSE Return([f.w EXCEPT !.sends[c] = Append(@, callback)], Undefined, TRUE)

\* addSender with no receiver waiting, after #fillBuffer, whose outcome is f.
addSenderFilled(f, c, callback) ==
    IF f.threw THEN f
    ELSE IF capacity[c] # 0 /\ ~full(f.w.buffer[c])
    THEN Bind(InvokeSender(f.w, callback, NoErr, TRUE),
              LAMBDA s :
                  IF s.threw THEN s
                  ELSE IF push(s.w.buffer[c], s.val).threw
                  THEN Throw(s.w, BufferFullError)
                  ELSE Return(Accept([s.w EXCEPT !.buffer[c] =
                                         push(s.w.buffer[c], s.val).b], c, s.val),
                              Undefined, FALSE))
    ELSE Return([f.w EXCEPT !.sends[c] = Append(@, callback)], Undefined, TRUE)

\* A variant of addSender that does not look at the waiting receivers.
addSenderBlind(w, c, callback) ==
    IF ~w.open[c] THEN Throw(w, SendOnClosedChannelError)
    ELSE Bind(fillBuffer(w, c), LAMBDA f : addSenderFilled(f, c, callback))

\* addSender: the waiting receiver is shifted off its queue before the
\* sender's callback is called for the value.
addSender(w, c, callback) ==
    IF ~w.open[c] THEN Throw(w, SendOnClosedChannelError)
    ELSE IF Len(w.recvs[c]) # 0
    THEN Bind(InvokeSender([w EXCEPT !.recvs[c] = Tail(@)], callback, NoErr, TRUE),
              LAMBDA s :
                  IF s.threw THEN s
                  ELSE ReturnFalse(InvokeReceiver(
                           Deliver(Accept(s.w, c, s.val), c, s.val),
                           Head(w.recvs[c]), s.val, TRUE)))
    ELSE Bind(fillBuffer(w, c), LAMBDA f : addSenderFilled(f, c, callback))

\* Chan.recv(abort): the promise is ops[id].
recv(w, c, id) ==
    IF w.ops[id].signal = "aborted" THEN Reject(w, id, AbortReason)
    ELSE Bind(tryRecv(w, c),
              LAMBDA t :
                  IF t.threw THEN Reject(t.w, id, t.err)
                  ELSE IF t.some THEN Resolve(t.w, id, t.val, t.flag)
                  ELSE Bind(addReceiver([t.w EXCEPT !.ops[id].listening =
                                            (w.ops[id].signal # "none")],
                                        c, Callback("chan", id)),
                            LAMBDA a : IF a.threw THEN Reject(a.w, id, a.err)
                                       ELSE a.w))

\* What the loops of close carry: the heap and lastError.
Closing(w, lastError) == [w |-> w, lastError |-> lastError]

\* close: the loop over the waiting receivers (index i into #recvs).
RECURSIVE closeRecvs(_, _, _, _)
closeRecvs(w, c, i, lastError) ==
    IF i > Len(w.recvs[c])
    THEN Closing([w EXCEPT !.recvs[c] = <<>>], lastError)
    ELSE Bind(InvokeReceiver([w EXCEPT !.recvs[c][i] = NoCallback],
                             w.recvs[c][i], ClosedValue(c), FALSE),
              LAMBDA r : closeRecvs(r.w, c, i + 1,
                                    IF r.threw THEN r.err ELSE lastError))

\* A variant of the flush that moves no sender into the buffer.
closeFlushNot(w, c, lastError) == Closing(w, lastError)

\* close: queued senders are flushed into the free buffer slots.
RECURSIVE closeFlush(_, _, _)
closeFlush(w, c, lastError) ==
    IF capacity[c] # 0 /\ ~full(w.buffer[c]) /\ Len(w.sends[c]) # 0
    THEN Bind(InvokeSender([w EXCEPT !.sends[c] = Tail(@)], Head(w.sends[c]),
                           NoErr, TRUE),
              LAMBDA r :
                  IF r.threw THEN closeFlush(r.w, c, r.err)
                  ELSE closeFlush(Accept([r.w EXCEPT !.buffer[c] =
                                             push(r.w.buffer[c], r.val).b],
                                         c, r.val), c, lastError))
    ELSE Closing(w, lastError)

\* A variant of closeSends that drops the queued senders without calling
\* them.
closeSendsSilent(w, c, i, lastError) ==
    Closing([w EXCEPT !.sends[c] = <<>>], lastError)

\* A variant of closeSends that keeps every error thrown, the error handed
\* to the callback too.
RECURSIVE closeSendsStrict(_, _, _, _)
closeSendsStrict(w, c, i, lastError) ==
    IF i > Len(w.sends[c])
    THEN Closing([w EXCEPT !.sends[c] = <<>>], lastError)
    ELSE Bind(InvokeSender([w EXCEPT !.sends[c][i] = NoCallback],
                           w.sends[c][i], SendOnClosedChannelError, FALSE),
              LAMBDA r : closeSendsStrict(r.w, c, i + 1,
                                          IF r.threw THEN r.err ELSE lastError))

\* close: the senders that are left are told the channel is closed.
RECURSIVE closeSends(_, _, _, _)
closeSends(w, c, i, lastError) ==
    IF i > Len(w.sends[c])
    THEN Closing([w EXCEPT !.sends[c] = <<>>], lastError)
    ELSE Bind(InvokeSender([w EXCEPT !.sends[c][i] = NoCallback],
                           w.sends[c][i], SendOnClosedChannelError, FALSE),
              LAMBDA r : closeSends(r.w, c, i + 1,
                                    IF r.threw /\ r.err # SendOnClosedChannelError
                                    THEN r.err ELSE lastError))

\* A variant of closeFlushed that also discards what the buffer holds.
closeFlushedReset(f, c) ==
    IF Len(f.w.sends[c]) # 0
    THEN closeSends([f.w EXCEPT !.buffer[c] = NewCircularBuffer(capacity[c])],
                    c, 1, f.lastError)
    ELSE Closing([f.w EXCEPT !.buffer[c] = NewCircularBuffer(capacity[c])],
                 f.lastError)

\* close after the flush, whose outcome is f.
closeFlushed(f, c) ==
    IF Len(f.w.sends[c]) # 0 THEN closeSends(f.w, c, 1, f.lastError) ELSE f

\* The end of close: lastError, if any, is thrown.
closeEnd(x) ==
    IF x.lastError # NoErr THEN Throw(x.w, x.lastError)
    ELSE Return(x.w, Undefined, FALSE)

\* close on an open channel.
closeOpen(w, c) ==
    IF Len(w.recvs[c]) # 0
    THEN Bind(closeRecvs([w EXCEPT !.open[c] = FALSE], c, 1, NoErr),
              LAMBDA x : closeEnd(x))
    ELSE Bind(closeFlush([w EXCEPT !.open[c] = FALSE], c, NoErr),
              LAMBDA f : Bind(closeFlushed(f, c), LAMBDA x : closeEnd(x)))

\* A variant of close that returns quietly when the channel is closed.
closeTolerant(w, c) ==
    IF ~w.open[c] THEN Return(w, Undefined, FALSE) ELSE closeOpen(w, c)

close(w, c) ==
    IF ~w.open[c] THEN Throw(w, CloseOfClosedChannelError) ELSE closeOpen(w, c)

\* A variant of the shuffle that leaves the values in the order they have.
shuffleNone(values, js) == values

\* -------------------------------------------------------------- Select
\* fisherYatesShuffle(values) with js[i] = Math.floor(mathRandom() * (i + 1)),
\* for i from values.length - 1 down to 1 (positions count from 0 there).
Swap(values, a, b) ==
    [values EXCEPT ![a] = values[b], ![b] = values[a]]
RECURSIVE shuffleFrom(_, _, _)
shuffleFrom(values, i, js) ==
    IF i <= 0 THEN values
    ELSE shuffleFrom(Swap(values, i + 1, js[i] + 1), i - 1, js)
fisherYatesShuffle(values, js) == shuffleFrom(values, Len(values) - 1, js)

\* The random draws one shuffle of n values can make.
Randoms(n) == {js \in [1..(n - 1) -> 0..(n - 1)] : \A i \in 1..(n - 1) : js[i] <= i}

\* A variant of the stamping that leaves every pidx as it was.
stampNone(w) == w

\* Every value is stamped with the position the shuffle left it in.
Stamp(w) ==
    [w EXCEPT !.cs = [i \in 1..Len(w.cs) |->
        LET ks == {k \in 1..Len(w.pending) : w.pending[k] = i}
        IN IF ks = {} THEN w.cs[i]
           ELSE [w.cs[i] EXCEPT !.pidx = CHOOSE k \in ks : TRUE]]]

\* A fresh token object: the k-th one made by the current call of poll or
\* wait (the last of waits); wait's own token is its 0-th.
NewToken(w, k, stopFlag) ==
    [id |-> Len(w.waits) * (Len(cases) + 1) + k, stop |-> stopFlag]
LockedCallback(i, token) == [kind |-> "sel", id |-> i, tok |-> token.id]

\* poll: what follows addSender / addReceiver (outcome a) for the case at
\* position k, the finally included; on is the rest of the scan.
pollAdded(a, k, on(_, _)) ==
    IF a.threw THEN Throw([a.w EXCEPT !.semaphore = NoToken], a.err)
    ELSE IF ~a.flag
    THEN Return([a.w EXCEPT !.semaphore = NoToken, !.next = a.w.pending[k]],
                a.w.pending[k], TRUE)
    ELSE on(a.w, k + 1)

\* poll: the scan of #pending, from position k.
RECURSIVE pollScan(_, _)
pollScan(w, k) ==
    IF k > Len(w.pending)
    THEN Return([w EXCEPT !.reshuffle = FALSE], 0, FALSE)
    ELSE LET i == w.pending[k]
             c == cases[i].ch
             token == NewToken(w, k, FALSE)
             cb == LockedCallback(i, token)
         IN IF w.cs[i].ok # "undefined"
            THEN Return([w EXCEPT !.next = i,
                                  !.reshuffle = IF cases[i].type = "Promise"
                                                THEN FALSE ELSE @], i, TRUE)
            ELSE IF cases[i].type = "Promise" THEN pollScan(w, k + 1)
            ELSE IF w.cs[i].cb # NoCallback THEN Throw(w, NeverError)
            ELSE IF cases[i].type = "Sender"
            THEN pollAdded(addSender([w EXCEPT !.semaphore = token], c, cb), k,
                           LAMBDA w1, k1 :
                               pollScan([removeSender(w1, c, cb)
                                            EXCEPT !.semaphore = NoToken], k1))
            ELSE pollAdded(addReceiver([w EXCEPT !.semaphore = token], c, cb), k,
                           LAMBDA w1, k1 :
                               pollScan([removeReceiver(w1, c, cb)
                                            EXCEPT !.semaphore = NoToken], k1))

\* A variant of poll that shuffles when the flag is not set, and not when it
\* is.
pollShuffleInverted(w, js) ==
    IF w.waiting THEN Throw(w, InUseError)
    ELSE IF w.semaphore # NoToken THEN Throw(w, NeverError)
    ELSE LET w1 == IF w.next # 0
                   THEN [w EXCEPT !.cs[w.next].ok = "undefined",
                                  !.cs[w.next].next = Undefined,
                                  !.next = 0]
                   ELSE w
             w2 == IF ~w1.reshuffle
                   THEN Stamp([w1 EXCEPT !.pending = fisherYatesShuffle(@, js),
                                         !.reshuffle = TRUE])
                   ELSE w1
         IN pollScan(w2, 1)

\* Select.poll(); js are the random draws of the shuffle, should it happen.
poll(w, js) ==
    IF w.waiting THEN Throw(w, InUseError)
    ELSE IF w.semaphore # NoToken THEN Throw(w, NeverError)
    ELSE LET w1 == IF w.next # 0
                   THEN [w EXCEPT !.cs[w.next].ok = "undefined",
                                  !.cs[w.next].next = Undefined,
                                  !.next = 0]
                   ELSE w
             w2 == IF w1.reshuffle
                   THEN Stamp([w1 EXCEPT !.pending = fisherYatesShuffle(@, js)])
                   ELSE [w1 EXCEPT !.reshuffle = TRUE]
         IN pollScan(w2, 1)

\* The record of one call of poll or wait.  For wait: pc is where the async
\* function stands, token its stop token, inner the promise of
\* Promise.race(#pending), outer that of the race against rejectOnAbort, gen
\* the yield generation read on entry; ret says how the function body ended
\* ("return" / "throw", with val / err) and st is the promise the caller
\* holds.  For poll: ret, val, err are the outcome of the call (val = 0:
\* undefined).
NewCall(kind, signal) ==
    [kind |-> kind, pc |-> "done", token |-> NoToken, signal |-> signal,
     listening |-> FALSE, inner |-> PendingPromise, outer |-> PendingPromise,
     gen |-> 0, yp |-> 0, ret |-> "", val |-> Undefined, err |-> NoErr, st |-> "pending"]

\* A variant of the end of wait's body that never awaits the yield promise.
finallyNoYield(w, id, r) ==
    [w EXCEPT !.waits[id].ret = IF r.threw THEN "throw" ELSE "return",
              !.waits[id].val = r.val, !.waits[id].err = r.err,
              !.waits[id].pc = "done",
              !.waits[id].st = IF r.threw THEN "rejected" ELSE "resolved"]

\* The end of wait's body: the outer finally awaits the yield promise when no
\* macrotask has run since the call, and only then the caller's promise
\* settles.
finallyYield(w, id, r) ==
    LET w1 == [w EXCEPT !.waits[id].ret = IF r.threw THEN "throw" ELSE "return",
                        !.waits[id].val = r.val, !.waits[id].err = r.err]
    IN IF w.yieldGeneration = w.waits[id].gen
       THEN [w1 EXCEPT !.waits[id].pc = "yield"]
       ELSE [w1 EXCEPT !.waits[id].pc = "done",
                       !.waits[id].st = IF r.threw THEN "rejected" ELSE "resolved"]

\* yieldToMacrotaskQueueExecutor: the resolve of the new handle is kept and
\* yieldComplete is scheduled as a macrotask.
yieldToMacrotaskQueueExecutor(w, h) ==
    [w EXCEPT !.yieldResolve = h, !.macrotasks = @ + 1]

\* A variant of yieldToMacrotaskQueue that makes a new handle at every call.
yieldAlways(w) ==
    yieldToMacrotaskQueueExecutor(
        [w EXCEPT !.yieldHandles = Append(@, "pending"),
                  !.yieldPromise = Len(w.yieldHandles) + 1],
        Len(w.yieldHandles) + 1)

\* yieldToMacrotaskQueue(): the heap after the call; the handle returned is
\* its yieldPromise.
yieldToMacrotaskQueue(w) ==
    IF w.yieldPromise = 0
    THEN yieldToMacrotaskQueueExecutor(
             [w EXCEPT !.yieldHandles = Append(@, "pending"),
                       !.yieldPromise = Len(w.yieldHandles) + 1],
             Len(w.yieldHandles) + 1)
    ELSE w

\* wait: the yield generation and the yield handle are taken.
waitYield(w, id) ==
    [yieldToMacrotaskQueue(w) EXCEPT
        !.waits[id].gen = w.yieldGeneration,
        !.waits[id].yp = yieldToMacrotaskQueue(w).yieldPromise]

\* Select.wait(abort), up to the first await.
waitCall(w, id, js) ==
    IF w.waits[id].signal = "aborted"
    THEN [w EXCEPT !.waits[id].ret = "throw", !.waits[id].err = AbortReason,
                   !.waits[id].st = "rejected"]
    ELSE Bind(poll(waitYield(w, id), js),
              LAMBDA p :
                  IF p.threw \/ p.val # 0 THEN finallyYield(p.w, id, p)
                  ELSE [p.w EXCEPT !.waiting = TRUE,
                                   !.semaphore = NewToken(p.w, 0, TRUE),
                                   !.waits[id].token = NewToken(p.w, 0, TRUE),
                                   !.waits[id].listening =
                                       (w.waits[id].signal # "none"),
                                   !.waits[id].pc = "registering"])

\* reject(e) of the promise that a case's then builds for wait id.
RejectInner(w, id, e) ==
    [w EXCEPT !.waits[id].inner = Settle(@, "rejected", Undefined, e)]

\* s.then of case i: what follows addSender / addReceiver (outcome a) in the
\* executor of the promise built for wait id.
thenAdded(a, i, id, cb) ==
    IF a.threw THEN RejectInner([a.w EXCEPT !.cs[i].pend = 0], id, a.err)
    ELSE IF a.flag THEN [a.w EXCEPT !.cs[i].cb = cb]
    ELSE IF a.w.cs[i].pend # 0
    THEN RejectInner([a.w EXCEPT !.cs[i].pend = 0], id, MisuseError)
    ELSE a.w

\* s.then of case i, called by Promise.race for wait id.  For an
\* external-value case it leaves a continuation on s.wait, bound to the token
\* of the wait.
then(w, i, id) ==
    LET c == cases[i].ch
        cb == LockedCallback(i, w.semaphore)
    IN IF w.semaphore = NoToken THEN RejectInner(w, id, ThenCalledAfterStopError)
       ELSE IF cases[i].type = "Promise"
       THEN [w EXCEPT !.cs[i].conts = @ \cup {id}]
       ELSE IF w.cs[i].cb # NoCallback THEN RejectInner(w, id, NeverError)
       ELSE IF cases[i].type = "Sender"
       THEN Bind(addSender([w EXCEPT !.cs[i].pend = id], c, cb),
                 LAMBDA a : thenAdded(a, i, id, cb))
       ELSE Bind(addReceiver([w EXCEPT !.cs[i].pend = id], c, cb),
                 LAMBDA a : thenAdded(a, i, id, cb))

\* Promise.race(#pending): the then of every pending case, in order.
RECURSIVE race(_, _, _)
race(w, id, k) ==
    IF k > Len(w.pending) THEN w
    ELSE Bind(then(w, w.pending[k], id), LAMBDA w1 : race(w1, id, k + 1))

\* A variant of the promise that wait awaits: the one that the abort listener
\* rejects, whether or not a signal was given.
AwaitedOuter(wt) == wt.outer

\* The promise wait awaits: the race of the cases, or the promise that wraps
\* it when a signal was given.
Awaited(wt) == IF wt.signal = "none" THEN wt.inner ELSE wt.outer

\* A variant of the abort listener that withdraws the callbacks but leaves
\* rejectOnAbort pending.
abortListenerSilent(w, id) ==
    [stop(w, w.waits[id].token) EXCEPT !.waits[id].listening = FALSE]

\* abortListener of wait id
abortListener(w, id) ==
    LET w1 == stop(w, w.waits[id].token)
    IN [w1 EXCEPT !.waits[id].listening = FALSE,
                  !.waits[id].outer = Settle(@, "rejected", Undefined, AbortReason)]

\* Select.wait from the await on: finally stop, the check of the index,
\* #next, #waiting.
waitResume(w, id) ==
    LET p == Awaited(w.waits[id])
        w1 == [stop(w, w.waits[id].token) EXCEPT !.waits[id].listening = FALSE,
                                                 !.waiting = FALSE]
        i == p.val
    IN IF p.st = "rejected" THEN finallyYield(w1, id, Throw(w1, p.err))
       ELSE IF i \notin 1..Len(cases) \/ w1.cs[i].pidx = 0
               \/ w1.pending[w1.cs[i].pidx] # i
       THEN finallyYield(w1, id, Throw(w1, NeverError))
       ELSE finallyYield([w1 EXCEPT !.next = i], id, Return(w1, i, TRUE))

\* A variant of the splice in Select.recv that leaves the cases behind the
\* spliced one with their old positions.
splicePendingUnstamped(w, i) ==
    [w EXCEPT !.pending = Splice(@, w.cs[i].pidx), !.cs[i].pidx = 0]

\* Select.recv: the case is taken out of #pending, and the cases behind it
\* are stamped with their new positions.
splicePending(w, i) ==
    Stamp([w EXCEPT !.pending = Splice(@, w.cs[i].pidx), !.cs[i].pidx = 0])

\* A variant of the consumption in Select.recv that clears #next only.
consumeKeep(w, i) == [w EXCEPT !.next = 0]

\* Select.recv: the result is consumed.
consume(w, i) ==
    [w EXCEPT !.next = 0, !.cs[i].ok = "undefined", !.cs[i].next = Undefined]

\* Select.recv(v): i is the case v is in the cases of the select, 0 when it
\* is none of them; flag is done, and a rejected external value is thrown
\* (val is what is thrown).
selRecv(w, i) ==
    IF w.waiting THEN Throw(w, InUseError)
    ELSE IF i \notin 1..Len(cases) THEN Throw(w, NotFoundError)
    ELSE IF i = w.next /\ w.cs[i].pidx # 0 /\ w.pending[w.cs[i].pidx] = i
    THEN IF cases[i].type = "Receiver"
         THEN IF w.cs[i].ok = "true" THEN Return(consume(w, i), w.cs[i].next, FALSE)
              ELSE IF w.cs[i].ok = "false"
              THEN Return(consume(w, i), w.cs[i].next, TRUE)
              ELSE Throw(w, NotReadyError)
         ELSE IF cases[i].type = "Promise"
         THEN IF w.cs[i].ok = "true"
              THEN Return(consume(splicePending(w, i), i), w.cs[i].next, FALSE)
              ELSE IF w.cs[i].ok = "false"
              THEN Res(consume(splicePending(w, i), i), TRUE, ExternalError,
                       w.cs[i].next, FALSE)
              ELSE Throw(w, NotReadyError)
         ELSE Throw(w, NotReceivableError)
    ELSE Throw(w, NotReadyError)

\* The handlers on Promise.resolve(s.pval) of the external-value case i, run
\* once the value has settled: they set ok and next, and s.wait resolves.
pvalSettled(w, i) ==
    [w EXCEPT !.cs[i].ok = IF w.cs[i].pval = "resolved" THEN "true" ELSE "false",
              !.cs[i].next = IF w.cs[i].pval = "resolved" THEN ExternalValue(i)
                             ELSE ExternalReason(i),
              !.cs[i].wait = "resolved"]

\* The continuation that the then of the external-value case i left on
\* s.wait for wait id: stop(token), and the race is resolved with i.
waitThen(w, i, id) ==
    LET live == w.semaphore = w.waits[id].token
        w1 == IF live THEN Fire(w, i, w.waits[id].token.id, TRUE) ELSE w
    IN [stop(w1, w.waits[id].token) EXCEPT
           !.cs[i].conts = @ \ {id},
           !.waits[id].inner = Settle(@, "resolved", i, NoErr)]

\* yieldComplete.  Number.MAX_SAFE_INTEGER (2^53 - 1) is beyond the integers
\* of the model checker; the generation wraps at the largest one it has.
MaxSafeInteger == 2147483647
\* A variant of yieldComplete that wraps to 0.
yieldCompleteWrapZero(w) ==
    [w EXCEPT !.yieldPromise = 0,
              !.yieldGeneration = IF @ = MaxSafeInteger THEN 0 ELSE @ + 1,
              !.yieldHandles = IF w.yieldResolve = 0 THEN @
                               ELSE [@ EXCEPT ![w.yieldResolve] = "resolved"],
              !.yieldResolve = 0]

yieldComplete(w) ==
    [w EXCEPT !.yieldPromise = 0,
              !.yieldGeneration = IF @ = MaxSafeInteger THEN -MaxSafeInteger
                                  ELSE @ + 1,
              !.yieldHandles = IF w.yieldResolve = 0 THEN @
                               ELSE [@ EXCEPT ![w.yieldResolve] = "resolved"],
              !.yieldResolve = 0]

\* A variant of the abort listener of Chan.send that rejects the promise but
\* leaves the callback on the queue.
sendListenerKeep(w, c, id) ==
    Reject([w EXCEPT !.ops[id].listening = FALSE], id, AbortReason)

\* The abort listener installed by Chan.send / Chan.recv.
sendListener(w, c, id) ==
    Reject(removeSender([w EXCEPT !.ops[id].listening = FALSE], c,
                        Callback("chan", id)), id, AbortReason)
recvListener(w, c, id) ==
    Reject(removeReceiver([w EXCEPT !.ops[id].listening = FALSE], c,
                          Callback("chan", id)), id, AbortReason)

\* -------------------------------------------------------------- actions
Signals == {"none", "idle", "aborted"}

\* A Select over the given cases, as its constructor leaves it; the pending
\* set is one of the orders the constructor's shuffle can produce.
NewSelectAt(cs0, order, generation) ==
    /\ cases = cs0
    /\ pending = order
    /\ cs = [i \in 1..Len(cs0) |->
               [NewCaseState EXCEPT
                   !.pidx = CHOOSE k \in 1..Len(order) : order[k] = i,
                   !.pval = IF cs0[i].type = "Promise" THEN "pending" ELSE "none",
                   !.wait = IF cs0[i].type = "Promise" THEN "pending" ELSE "none"]]
    /\ waiting = FALSE
    /\ reshuffle = FALSE
    /\ next = 0
    /\ semaphore = NoToken
    /\ waits = <<>>
    /\ exprs = 0
    /\ fired = <<>>
    /\ yieldGeneration = generation
    /\ yieldPromise = 0
    /\ yieldResolve = 0
    /\ yieldHandles = <<>>
    /\ macrotasks = 0
    /\ records = <<>>
    /\ selects = <<>>

\* new Select(cases) in a program that has not yielded yet.
NewSelect(cs0, order) == NewSelectAt(cs0, order, 0)

\* No Select is constructed: the channel is used on its own.
NoSelect == NewSelect(<<>>, <<>>)

\* new Chan(capacity, newDefaultValue) for every channel of the model
Init ==
    /\ capacity \in [{1} -> 0..MaxCap]
    /\ newDefaultValue \in [Chans -> BOOLEAN]
    /\ buffer = [c \in Chans |-> NewCircularBuffer(capacity[c])]
    /\ open = [c \in Chans |-> TRUE]
    /\ sends = [c \in Chans |-> <<>>]
    /\ recvs = [c \in Chans |-> <<>>]
    /\ ops = <<>>
    /\ accepted = [c \in Chans |-> <<>>]
    /\ delivered = [c \in Chans |-> <<>>]
    /\ NoSelect

NextId == Len(ops) + 1
WithOp(op) == [W EXCEPT !.ops = Append(@, op)]

\* ch.trySend(v)
TrySend(c) ==
    /\ Len(ops) < MaxOps
    /\ Commit(Returned(trySend(WithOp(NewOp("trySend", c, "none", FALSE)), c, NextId),
                       NextId))

\* ch.send(v, abort)
Send(c, signal) ==
    /\ Len(ops) < MaxOps
    /\ Commit(send(WithOp(NewOp("send", c, signal, FALSE)), c, NextId))

\* ch.tryRecv()
TryRecv(c) == Commit(tryRecv(W, c).w)

\* ch.recv(abort)
Recv(c, signal) ==
    /\ Len(ops) < MaxOps
    /\ Commit(recv(WithOp(NewOp("recv", c, signal, FALSE)), c, NextId))

\* ch.addSender(cb) with a user callback
AddSender(c, throws) ==
    /\ Len(ops) < MaxOps
    /\ Commit(Returned(addSender(WithOp(NewOp("addSender", c, "none", throws)), c,
                                 Callback("user", NextId)), NextId))

\* ch.addReceiver(cb) with a user callback
AddReceiver(c, throws) ==
    /\ Len(ops) < MaxOps
    /\ Commit(Returned(addReceiver(WithOp(NewOp("addReceiver", c, "none", throws)), c,
                                   Callback("user", NextId)), NextId))

\* ch.removeSender(cb) for a callback given to addSender earlier
RemoveSender(id) ==
    /\ id \in 1..Len(ops)
    /\ ops[id].kind = "addSender"
    /\ Commit(removeSender(W, ops[id].ch, Callback("user", id)))

\* ch.removeReceiver(cb) for a callback given to addReceiver earlier
RemoveReceiver(id) ==
    /\ id \in 1..Len(ops)
    /\ ops[id].kind = "addReceiver"
    /\ Commit(removeReceiver(W, ops[id].ch, Callback("user", id)))

\* ch.close()
Close(c) == Commit(close(W, c).w)

\* controller.abort(reason): the signal of send/recv number id fires
Abort(id) ==
    /\ id \in 1..Len(ops)
    /\ ops[id].signal = "idle"
    /\ LET c == ops[id].ch
           w0 == [W EXCEPT !.ops[id].signal = "aborted"]
       IN Commit(IF ~ops[id].listening THEN w0
                 ELSE IF ops[id].kind = "send" THEN sendListener(w0, c, id)
                 ELSE recvListener(w0, c, id))

Next ==
    \/ \E c \in Chans : TrySend(c)
    \/ \E c \in Chans, signal \in Signals : Send(c, signal)
    \/ \E c \in Chans : TryRecv(c)
    \/ \E c \in Chans, signal \in Signals : Recv(c, signal)
    \/ \E c \in Chans, throws \in BOOLEAN : AddSender(c, throws)
    \/ \E c \in Chans, throws \in BOOLEAN : AddReceiver(c, throws)
    \/ \E id \in 1..MaxOps : RemoveSender(id)
    \/ \E id \in 1..MaxOps : RemoveReceiver(id)
    \/ \E c \in Chans : Close(c)
    \/ \E id \in 1..MaxOps : Abort(id)

Spec == Init /\ [][Next]_vars

\* ------------------------------------------------- actions of the Select
\* The selects of the model: two cases, over two channels or over one.
SelChans == {1, 2}
Case(type, c) == [type |-> type, ch |-> c]
SelectConfigs ==
    { <<Case("Sender", 1), Case("Receiver", 2)>>,
      <<Case("Sender", 1), Case("Sender", 2)>>,
      <<Case("Receiver", 1), Case("Receiver", 2)>>,
      <<Case("Sender", 1), Case("Receiver", 1)>> }

\* Two channels (the first with a default value factory) and one Select.
SelInit ==
    /\ capacity \in {[c \in SelChans |-> n] : n \in 0..MaxSelCap}
    /\ newDefaultValue = [c \in SelChans |-> c = 1]
    /\ buffer = [c \in Chans |-> NewCircularBuffer(capacity[c])]
    /\ open = [c \in Chans |-> TRUE]
    /\ sends = [c \in Chans |-> <<>>]
    /\ recvs = [c \in Chans |-> <<>>]
    /\ ops = <<>>
    /\ accepted = [c \in Chans |-> <<>>]
    /\ delivered = [c \in Chans |-> <<>>]
    /\ \E cs0 \in SelectConfigs, js \in Randoms(2) :
           NewSelect(cs0, fisherYatesShuffle(<<1, 2>>, js))

WithCall(call) == [W EXCEPT !.waits = Append(@, call)]
NextCall == Len(waits) + 1

\* Record what the call of poll number id returned or threw.
Polled(r, id) ==
    [r.w EXCEPT !.waits[id].ret = IF r.threw THEN "throw" ELSE "return",
                !.waits[id].val = r.val,
                !.waits[id].err = r.err]

\* select.poll()
Poll(js) ==
    /\ Len(waits) < MaxCalls
    /\ Commit(Polled(poll(WithCall(NewCall("poll", "none")), js), NextCall))

\* select.wait(abort), up to its first await
Wait(signal, js) ==
    /\ Len(waits) < MaxCalls
    /\ Commit(waitCall(WithCall(NewCall("wait", signal)), NextCall, js))

\* The microtasks Promise.race queued: every pending case's then is called.
Register(id) ==
    /\ id \in 1..Len(waits)
    /\ waits[id].pc = "registering"
    /\ Commit([race(W, id, 1) EXCEPT !.waits[id].pc = "suspended"])

\* The signal given to wait number id fires.
AbortWait(id) ==
    /\ id \in 1..Len(waits)
    /\ waits[id].kind = "wait"
    /\ waits[id].signal = "idle"
    /\ LET w0 == [W EXCEPT !.waits[id].signal = "aborted"]
       IN Commit(IF waits[id].listening THEN abortListener(w0, id) ELSE w0)

\* The microtask that forwards the race of the cases to the race against
\* rejectOnAbort.
RaceSettle(id) ==
    /\ id \in 1..Len(waits)
    /\ waits[id].pc = "suspended"
    /\ waits[id].signal # "none"
    /\ waits[id].inner.st # "pending"
    /\ waits[id].outer.st = "pending"
    /\ Commit([W EXCEPT !.waits[id].outer = waits[id].inner])

\* wait number id resumes after its await.
WaitResume(id) ==
    /\ id \in 1..Len(waits)
    /\ waits[id].pc = "suspended"
    /\ Awaited(waits[id]).st # "pending"
    /\ Commit(waitResume(W, id))

\* A microtask is queued: a then to call, or a settled promise to act on.
MicrotasksQueued ==
    \/ \E i \in 1..Len(cases) :
           cs[i].pval \in {"resolved", "rejected"} /\ cs[i].wait = "pending"
    \/ \E id \in 1..Len(waits) :
        \/ waits[id].pc = "registering"
        \/ waits[id].pc = "suspended" /\ waits[id].inner.st # "pending"
        \/ waits[id].pc = "suspended" /\ waits[id].outer.st # "pending"
        \/ \E i \in 1..Len(cases) :
               /\ cs[i].wait = "resolved"
               /\ id \in cs[i].conts

\* The macrotask scheduled by yieldToMacrotaskQueue runs.
YieldComplete ==
    /\ macrotasks > 0
    /\ ~MicrotasksQueued
    /\ Commit(yieldComplete([W EXCEPT !.macrotasks = @ - 1]))

\* wait number id resumes after awaiting the yield promise and settles.
WaitDone(id) ==
    /\ id \in 1..Len(waits)
    /\ waits[id].pc = "yield"
    /\ yieldHandles[waits[id].yp] = "resolved"
    /\ Commit([W EXCEPT !.waits[id].pc = "done",
                        !.waits[id].st = IF waits[id].ret = "throw"
                                         THEN "rejected" ELSE "resolved"])

\* select.recv(select.cases[i])
SelRecv(i) ==
    /\ i \in 0..Len(cases)
    /\ Commit(selRecv(W, i).w)

\* The other users of the two channels (send and recv begin with trySend and
\* tryRecv, and so cover them).
PeerSend(c) == Len(ops) < MaxPeers /\ Send(c, "none")
PeerRecv(c) == Len(ops) < MaxPeers /\ Recv(c, "none")
PeerClose(c) == Close(c)

SelNext ==
    \/ \E js \in Randoms(2) : Poll(js)
    \/ \E signal \in Signals, js \in Randoms(2) : Wait(signal, js)
    \/ \E id \in 1..MaxCalls : Register(id)
    \/ \E id \in 1..MaxCalls : AbortWait(id)
    \/ \E id \in 1..MaxCalls : RaceSettle(id)
    \/ \E id \in 1..MaxCalls : WaitResume(id)
    \/ \E id \in 1..MaxCalls : WaitDone(id)
    \/ YieldComplete
    \/ \E i \in 1..2 : SelRecv(i)
    \/ \E c \in SelChans : PeerSend(c)
    \/ \E c \in SelChans : PeerRecv(c)
    \/ \E c \in SelChans : PeerClose(c)

SelSpec == SelInit /\ [][SelNext]_vars

\* ------------------------------ a Select and peers with signals
\* The peers call send and recv with a signal that has fired already.
PeerSendCancelled(c) == Len(ops) < MaxPeers /\ Send(c, "aborted")
PeerRecvCancelled(c) == Len(ops) < MaxPeers /\ Recv(c, "aborted")

CancelNext ==
    \/ \E js \in Randoms(2) : Poll(js)
    \/ \E signal \in Signals, js \in Randoms(2) : Wait(signal, js)
    \/ \E id \in 1..MaxCalls : Register(id)
    \/ \E id \in 1..MaxCalls : AbortWait(id)
    \/ \E id \in 1..MaxCalls : RaceSettle(id)
    \/ \E id \in 1..MaxCalls : WaitResume(id)
    \/ \E id \in 1..MaxCalls : WaitDone(id)
    \/ YieldComplete
    \/ \E i \in 1..2 : SelRecv(i)
    \/ \E c \in SelChans : PeerSend(c)
    \/ \E c \in SelChans : PeerRecv(c)
    \/ \E c \in SelChans : PeerClose(c)
    \/ \E c \in SelChans : PeerSendCancelled(c)
    \/ \E c \in SelChans : PeerRecvCancelled(c)

CancelSpec == SelInit /\ [][CancelNext]_vars

\* ------------------------------ actions of a Select with external values
\* The external value of case i settles.
ExternalSettle(i, how) ==
    /\ i \in 1..Len(cases)
    /\ cs[i].pval = "pending"
    /\ Commit([W EXCEPT !.cs[i].pval = how])

\* The microtask that records the settled value in the case.
PvalSettled(i) ==
    /\ i \in 1..Len(cases)
    /\ cs[i].pval \in {"resolved", "rejected"}
    /\ cs[i].wait = "pending"
    /\ Commit(pvalSettled(W, i))

\* The microtask that runs the continuation wait id has on s.wait of case i.
WaitThen(i, id) ==
    /\ i \in 1..Len(cases)
    /\ cs[i].wait = "resolved"
    /\ id \in cs[i].conts
    /\ Commit(waitThen(W, i, id))

\* The selects with external values: one external value beside a receive
\* case, a send case or another external value.
PromConfigs ==
    { <<Case("Promise", 0), Case("Receiver", 1)>>,
      <<Case("Promise", 0), Case("Sender", 1)>>,
      <<Case("Promise", 0), Case("Promise", 0)>> }

\* One channel and one Select.
PromInit ==
    /\ capacity \in [{1} -> 0..MaxSelCap]
    /\ newDefaultValue = [c \in Chans |-> TRUE]
    /\ buffer = [c \in Chans |-> NewCircularBuffer(capacity[c])]
    /\ open = [c \in Chans |-> TRUE]
    /\ sends = [c \in Chans |-> <<>>]
    /\ recvs = [c \in Chans |-> <<>>]
    /\ ops = <<>>
    /\ accepted = [c \in Chans |-> <<>>]
    /\ delivered = [c \in Chans |-> <<>>]
    /\ \E cs0 \in PromConfigs, js \in Randoms(2) :
           NewSelect(cs0, fisherYatesShuffle(<<1, 2>>, js))

PromNext ==
    \/ \E js \in Randoms(2) : Poll(js)
    \/ \E js \in Randoms(2) : Wait("none", js)
    \/ \E id \in 1..MaxCalls : Register(id)
    \/ \E id \in 1..MaxCalls : WaitResume(id)
    \/ \E id \in 1..MaxCalls : WaitDone(id)
    \/ YieldComplete
    \/ \E i \in 0..2 : SelRecv(i)
    \/ \E i \in 1..2, how \in {"resolved", "rejected"} : ExternalSettle(i, how)
    \/ \E i \in 1..2 : PvalSettled(i)
    \/ \E i \in 1..2, id \in 1..MaxCalls : WaitThen(i, id)
    \/ PeerSend(1)
    \/ PeerRecv(1)
    \/ PeerClose(1)

PromSpec == PromInit /\ [][PromNext]_vars

\* ------------------------------------------- one wait and the event loop
\* A Select is given one call of wait, with the peers of the channel and
\* the owner of the external value going about their business.
FirstWait(signal, js) == Len(waits) = 0 /\ Wait(signal, js)

WakeNext ==
    \/ \E signal \in Signals, js \in Randoms(2) : FirstWait(signal, js)
    \/ \E id \in 1..MaxCalls : Register(id)
    \/ \E id \in 1..MaxCalls : AbortWait(id)
    \/ \E id \in 1..MaxCalls : RaceSettle(id)
    \/ \E id \in 1..MaxCalls : WaitResume(id)
    \/ \E id \in 1..MaxCalls : WaitDone(id)
    \/ YieldComplete
    \/ \E i \in 0..2 : SelRecv(i)
    \/ \E i \in 1..2, how \in {"resolved", "rejected"} : ExternalSettle(i, how)
    \/ \E i \in 1..2 : PvalSettled(i)
    \/ \E i \in 1..2, id \in 1..MaxCalls : WaitThen(i, id)
    \/ PeerSend(1)
    \/ PeerRecv(1)
    \/ PeerClose(1)

\* One turn of the event loop: a queued microtask, or the macrotask of the
\* yield.
EventLoop ==
    \/ \E id \in 1..MaxCalls :
           Register(id) \/ RaceSettle(id) \/ WaitResume(id) \/ WaitDone(id)
    \/ \E i \in 1..2, id \in 1..MaxCalls : WaitThen(i, id)
    \/ \E i \in 1..2 : PvalSettled(i)
    \/ YieldComplete

\* The event loop keeps running what is queued (a call leaves finitely many
\* jobs, so none is passed over for ever); the callers of the Select and
\* the peers are under no obligation.
WakeSpec == PromInit /\ [][WakeNext]_vars /\ WF_vars(EventLoop)

\* ================================================================ claims
\* Values sent are distinct, so a value has one position in a history.
Pos(seq, v) == CHOOSE i \in 1..Len(seq) : seq[i] = v
Occurrences(seq, v) == Cardinality({i \in 1..Len(seq) : seq[i] = v})
InSeq(seq, v) == \E i \in 1..Len(seq) : seq[i] = v

Senders == {id \in 1..Len(ops) : ops[id].kind \in {"trySend", "send", "addSender"}}
Receivers == {id \in 1..Len(ops) : ops[id].kind \in {"recv", "addReceiver"}}

\* The callback of operation id, as it stands in a queue.
CallbackOf(id) ==
    Callback(IF ops[id].kind \in {"send", "recv"} THEN "chan" ELSE "user", id)

\* ---- C1
\* C1 (values): every value handed to a receiver was accepted from a sender,
\* the values received are in the order in which they were accepted, and the
\* values still buffered were all accepted after every value received and
\* stand in the buffer in the order of their acceptance.
FifoValues ==
    \A c \in Chans :
        LET held == delivered[c] \o BufItems(buffer[c])
        IN /\ \A i \in 1..Len(held) : InSeq(accepted[c], held[i])
           /\ \A i, j \in 1..Len(held) :
                  i < j => Pos(accepted[c], held[i]) < Pos(accepted[c], held[j])

\* C1 (receivers): a step that calls a waiting receiver calls every receiver
\* that was enqueued before it as well.
FifoReceivers ==
    \A c \in Chans : \A i, j \in 1..Len(recvs[c]) :
        (i < j /\ ops'[recvs[c][j].id].calls > ops[recvs[c][j].id].calls)
            => ops'[recvs[c][i].id].calls > ops[recvs[c][i].id].calls

\* C1: FIFO.  On every channel the values are handed to receivers in the
\* order in which their sends were accepted, through the buffer's wrap-around
\* and through close, and waiting receivers are served in the order in which
\* they were enqueued.
C1_Fifo == []FifoValues /\ [][FifoReceivers]_vars

\* C1 is seen at work: three values went through a buffer of two slots, the
\* third one stored after the tail wrapped around, and came out in the order
\* they went in.
C1_Witness ==
    \E c \in Chans :
        /\ capacity[c] = 2
        /\ delivered[c] = <<1, 2, 3>>
        /\ (buffer[c]).head = 1
        /\ \A id \in 1..3 : ops[id].kind = "trySend" /\ ops[id].ret = "true"

\* ---- C2
\* C2: deliveries are atomic.  Every sender callback is invoked at most once;
\* the value a sender hands over when told ok = true is taken exactly once,
\* and is held by at most one party (one receiver or one buffer slot); a
\* sender whose callback was told ok = false has its value taken by nobody;
\* no value is received twice or stored twice.
C2_AtomicDelivery ==
    /\ \A id \in 1..Len(ops) : ops[id].calls <= 1
    /\ \A id \in Senders :
           LET c == ops[id].ch
               held == delivered[c] \o BufItems(buffer[c])
           IN /\ Occurrences(accepted[c], id) <= 1
              /\ Occurrences(held, id) <= Occurrences(accepted[c], id)
              /\ (ops[id].kind = "addSender" /\ ops[id].st = "resolved"
                    /\ ~ops[id].throws) => Occurrences(accepted[c], id) = 1
              /\ (ops[id].kind = "send" /\ ops[id].st = "resolved")
                    => Occurrences(accepted[c], id) = 1
              /\ (ops[id].calls = 1 /\ ops[id].st = "rejected")
                    => Occurrences(accepted[c], id) = 0
    /\ \A r1, r2 \in Receivers :
           (r1 # r2 /\ ops[r1].st = "resolved" /\ ops[r2].st = "resolved"
              /\ ~ops[r1].done /\ ~ops[r2].done) => ops[r1].val # ops[r2].val

\* C2 is seen at work: a queued sender was called for its value, which then
\* went to a receiver, while another queued sender was told the channel is
\* closed.
C2_Witness ==
    \E s1, s2 \in Senders : \E r \in Receivers :
        /\ ops[s1].kind = "addSender" /\ ops[s1].ret = "true"
        /\ ops[s1].st = "resolved" /\ ops[s1].calls = 1
        /\ ops[r].st = "resolved" /\ ops[r].val = s1
        /\ ops[s2].ret = "true" /\ ops[s2].st = "rejected" /\ ops[s2].calls = 1

\* ---- C3
\* C3: conservation.  On every channel the number of values accepted from
\* senders equals the number of values handed to receivers plus the number
\* of values held in the buffer.
C3_Conservation ==
    \A c \in Chans :
        Len(accepted[c]) = Len(delivered[c]) + Len(BufItems(buffer[c]))

\* ---- C4
\* C4: whenever the receive queue of a channel is not empty, its buffer is
\* empty and its send queue is empty.
C4_NoReceiverBesideData ==
    \A c \in Chans :
        Len(recvs[c]) # 0 => (empty(buffer[c]) /\ Len(sends[c]) = 0)

\* C4 is seen at work: receivers wait on a channel that has a buffer, after
\* a value went through the channel.
C4_Witness ==
    \E c \in Chans :
        Len(recvs[c]) = 2 /\ capacity[c] = 2 /\ Len(delivered[c]) = 1

\* ---- C5
\* The step is a close of the open channel c.
CloseStep(c) == open[c] /\ ~open'[c]

\* Every receiver that waits on c is called by this step, once, with
\* ok = false and the default value (if there is a factory).
ReceiversNotified(c) ==
    \A k \in 1..Len(recvs[c]) :
        LET id == recvs[c][k].id
        IN /\ ops'[id].calls = ops[id].calls + 1
           /\ ops'[id].st = "resolved" /\ ops'[id].done
           /\ ops'[id].val = ClosedValue(c)

\* The sender id was told, by this step, that the channel is closed.
ToldClosed(id) ==
    ops'[id].st = "rejected" /\ ops'[id].err = SendOnClosedChannelError

\* C5 as stated: close marks the channel closed, calls every waiting
\* receiver once with ok = false, calls every queued sender once, each
\* either flushed into the buffer or told SendOnClosedChannelError with
\* ok = false, and leaves both queues empty.
C5_CloseNotifiesAll ==
    [][\A c \in Chans : CloseStep(c) =>
          /\ recvs'[c] = <<>> /\ sends'[c] = <<>>
          /\ ReceiversNotified(c)
          /\ \A k \in 1..Len(sends[c]) :
                 LET id == sends[c][k].id
                 IN /\ ops'[id].calls = ops[id].calls + 1
                    /\ \/ InSeq(BufItems(buffer'[c]), id)
                       \/ ToldClosed(id)]_vars

\* C5, amended: close marks the channel closed, calls every waiting receiver
\* once with ok = false, calls every queued sender once, either with
\* ok = true for the flush (its value is then stored in the buffer, unless
\* the callback throws instead of returning one) or with
\* SendOnClosedChannelError and ok = false, and leaves both queues empty.
C5_CloseNotifiesAllAmended ==
    [][\A c \in Chans : CloseStep(c) =>
          /\ recvs'[c] = <<>> /\ sends'[c] = <<>>
          /\ ReceiversNotified(c)
          /\ \A k \in 1..Len(sends[c]) :
                 LET id == sends[c][k].id
                 IN /\ ops'[id].calls = ops[id].calls + 1
                    /\ \/ InSeq(BufItems(buffer'[c]), id)
                       \/ ops'[id].st = "resolved" /\ ops'[id].throws
                          /\ ~InSeq(accepted'[c], id)
                       \/ ToldClosed(id)]_vars

\* C5 is seen at work: a channel was closed with two senders queued, and
\* both were told so, once each.
C5_Witness ==
    \E c \in Chans : \E s1, s2 \in Senders :
        /\ ~open[c] /\ s1 # s2
        /\ \A id \in {s1, s2} :
               /\ ops[id].ch = c /\ ops[id].kind \in {"send", "addSender"}
               /\ ops[id].calls = 1 /\ ops[id].st = "rejected"
               /\ ops[id].err = SendOnClosedChannelError
        /\ Len(sends[c]) = 0

\* ---- C6
FreshSender == Callback("user", NextId)

\* On a closed channel trySend and addSender throw SendOnClosedChannelError
\* and send rejects with it, and nothing else changes.
SendsRefused(c) ==
    /\ trySend(W, c, NextId) = Throw(W, SendOnClosedChannelError)
    /\ addSender(W, c, FreshSender) = Throw(W, SendOnClosedChannelError)
    /\ \A signal \in {"none", "idle"} :
           LET w0 == WithOp(NewOp("send", c, signal, FALSE))
           IN send(w0, c, NextId) = Reject(w0, NextId, SendOnClosedChannelError)

\* C6: a closed channel never becomes open again, and on it every trySend
\* and addSender throws SendOnClosedChannelError and every send rejects with
\* it, without enqueuing or invoking a callback or changing the buffer.
C6_ClosedRejectsSends ==
    /\ [](\A c \in Chans : ~open[c] => SendsRefused(c))
    /\ [][\A c \in Chans : ~open[c] => ~open'[c]]_vars

\* C6 is seen at work: on a closed channel that still holds a value a
\* trySend threw and a send was rejected, both with SendOnClosedChannelError.
C6_Witness ==
    \E c \in Chans : \E s1, s2 \in Senders :
        /\ ~open[c] /\ ~empty(buffer[c])
        /\ ops[s1].kind = "trySend" /\ ops[s1].ch = c
        /\ ops[s1].thrown = SendOnClosedChannelError
        /\ ops[s2].kind = "send" /\ ops[s2].ch = c /\ ops[s2].calls = 0
        /\ ops[s2].st = "rejected" /\ ops[s2].err = SendOnClosedChannelError

\* ---- C7
FreshReceiver == Callback("user", NextId)

\* What a receive gets from the closed channel c: the oldest buffered value,
\* or the closed marker once the buffer is exhausted.
DrainValue(c) ==
    IF empty(buffer[c]) THEN ClosedValue(c) ELSE BufItems(buffer[c])[1]
DrainBuffer(c) ==
    IF empty(buffer[c]) THEN BufItems(buffer[c]) ELSE Tail(BufItems(buffer[c]))

\* On the closed channel c each of tryRecv, recv and addReceiver completes at
\* once with DrainValue (done exactly when the buffer was exhausted), takes
\* that value off the buffer and enqueues nothing.
ReceivesDrain(c) ==
    /\ LET t == tryRecv(W, c)
       IN /\ ~t.threw /\ t.some /\ t.val = DrainValue(c)
          /\ t.flag = empty(buffer[c])
          /\ BufItems(t.w.buffer[c]) = DrainBuffer(c)
          /\ t.w.recvs[c] = <<>>
    /\ LET w0 == WithOp(NewOp("addReceiver", c, "none", FALSE))
           a == addReceiver(w0, c, FreshReceiver)
       IN /\ ~a.threw /\ ~a.flag /\ a.w.ops[NextId].calls = 1
          /\ a.w.ops[NextId].val = DrainValue(c)
          /\ a.w.ops[NextId].done = empty(buffer[c])
          /\ BufItems(a.w.buffer[c]) = DrainBuffer(c)
          /\ a.w.recvs[c] = <<>>
    /\ LET w0 == WithOp(NewOp("recv", c, "idle", FALSE))
           w1 == recv(w0, c, NextId)
       IN /\ w1.ops[NextId].st = "resolved"
          /\ w1.ops[NextId].val = DrainValue(c)
          /\ w1.ops[NextId].done = empty(buffer[c])
          /\ BufItems(w1.buffer[c]) = DrainBuffer(c)
          /\ w1.recvs[c] = <<>>

\* A sequence is the beginning of another.
IsPrefix(p, q) == Len(p) <= Len(q) /\ SubSeq(q, 1, Len(p)) = p

\* C7: drain on close.  The values buffered when the channel is closed stay
\* in the buffer, in their order, and leave it only one by one from the
\* front; a receive on the closed channel gets the oldest of them, and once
\* the buffer is exhausted every receive completes at once with the closed
\* marker (done, with the default value if there is a factory); no receiver
\* is ever enqueued on a closed channel.
C7_DrainOnClose ==
    /\ [](\A c \in Chans : ~open[c] => (recvs[c] = <<>> /\ ReceivesDrain(c)))
    /\ [][\A c \in Chans :
            /\ CloseStep(c) => IsPrefix(BufItems(buffer[c]), BufItems(buffer'[c]))
            /\ ~open[c] => BufItems(buffer'[c]) \in
                               {BufItems(buffer[c]), DrainBuffer(c)}]_vars

\* C7 is seen at work: after the channel was closed (a trySend was refused),
\* a recv got the value that was buffered, which exhausted the buffer.
C7_Witness ==
    \E c \in Chans : \E i, j \in 1..Len(ops) :
        /\ i < j /\ ~open[c] /\ empty(buffer[c]) /\ capacity[c] > 0
        /\ ops[i].thrown = SendOnClosedChannelError
        /\ ops[j].kind = "recv" /\ ops[j].st = "resolved" /\ ~ops[j].done
        /\ ops[j].val # Undefined

\* ---- C8
\* C8: close of a closed channel throws CloseOfClosedChannelError, invokes
\* no callback and leaves the buffer, both queues and the closed flag as
\* they are.
C8_CloseOfClosed ==
    \A c \in Chans : ~open[c] => close(W, c) = Throw(W, CloseOfClosedChannelError)

\* C8 is seen at work: a closed channel that still holds two values.
C8_Witness ==
    \E c \in Chans : ~open[c] /\ (buffer[c]).size = 2

\* ---- C9
\* The queue of channel c without the callback cb.
Without(q, cb) == SelectSeq(q, LAMBDA x : x # cb)

\* The signal of the send or recv number id fires in this step.
AbortStep(id) == ops[id].signal = "idle" /\ ops'[id].signal = "aborted"

\* The send or recv number id is suspended: its callback waits in the queue
\* and its abort listener is installed.
Suspended(id) ==
    /\ ops[id].kind \in {"send", "recv"}
    /\ ops[id].listening

\* Cancelling a suspended operation takes its callback, and nothing else,
\* out of the queue (the concurrency moves back by one) and rejects the
\* promise with the reason.
Cancelled(id) ==
    LET c == ops[id].ch
    IN /\ ops'[id].st = "rejected" /\ ops'[id].err = AbortReason
       /\ ~ops'[id].listening
       /\ IF ops[id].kind = "send"
          THEN /\ sends'[c] = Without(sends[c], CallbackOf(id))
               /\ Len(sends'[c]) = Len(sends[c]) - Occurrences(sends[c], CallbackOf(id))
               /\ recvs'[c] = recvs[c]
          ELSE /\ recvs'[c] = Without(recvs[c], CallbackOf(id))
               /\ Len(recvs'[c]) = Len(recvs[c]) - Occurrences(recvs[c], CallbackOf(id))
               /\ sends'[c] = sends[c]
       /\ buffer'[c] = buffer[c]

\* A settled promise keeps its outcome.
StaysSettled(id) ==
    ops[id].st # "pending" =>
        /\ ops'[id].st = ops[id].st /\ ops'[id].val = ops[id].val
        /\ ops'[id].done = ops[id].done /\ ops'[id].err = ops[id].err

\* C9: when the signal of a suspended Chan.send or Chan.recv fires, its
\* callback is withdrawn from the queue, so that the concurrency of the
\* channel moves back by the one the call had added, and the promise rejects
\* with exactly the reason; an operation that had completed stays completed,
\* and no send is both delivered and rejected with the reason.
C9_Cancellation ==
    /\ [](\A id \in 1..Len(ops) :
            /\ Suspended(id) => ops[id].st = "pending" /\ ops[id].signal = "idle"
            /\ Occurrences(sends[ops[id].ch], CallbackOf(id)) <= 1
            /\ Occurrences(recvs[ops[id].ch], CallbackOf(id)) <= 1
            /\ (ops[id].kind = "send" /\ ops[id].st = "rejected"
                  /\ ops[id].err = AbortReason) => ~InSeq(accepted[ops[id].ch], id))
    /\ [][\A id \in 1..Len(ops) :
            /\ (ops[id].kind \in {"send", "recv"}) => StaysSettled(id)
            /\ (AbortStep(id) /\ Suspended(id)) => Cancelled(id)
            /\ (AbortStep(id) /\ ~Suspended(id)) =>
                   UNCHANGED <<buffer, sends, recvs, accepted, delivered>>]_vars

\* C9 is seen at work: a suspended send was cancelled and rejected with the
\* reason, and the signal of a recv fired after the recv had got its value,
\* which it kept.
C9_Witness ==
    \E s, r \in 1..Len(ops) :
        /\ ops[s].kind = "send" /\ ops[s].signal = "aborted" /\ ops[s].calls = 0
        /\ ops[s].st = "rejected" /\ ops[s].err = AbortReason
        /\ ~InSeq(sends[ops[s].ch], CallbackOf(s))
        /\ ops[r].kind = "recv" /\ ops[r].signal = "aborted"
        /\ ops[r].st = "resolved" /\ ops[r].calls = 1

\* ---- C10
\* The locked callbacks that ran under the token tok.
FiredUnder(tok) == {n \in 1..Len(fired) : fired[n].tok = tok}

\* The callbacks among them that committed a channel operation: a send case
\* told ok = true (its value went out), a receive case given a value.
Committed(tok) == {n \in FiredUnder(tok) : fired[n].ok}

\* The callbacks of the Select that stand in the queues of the channels.
Registered ==
    {cb \in UNION {{sends[c][k] : k \in 1..Len(sends[c])} : c \in Chans}
            \cup UNION {{recvs[c][k] : k \in 1..Len(recvs[c])} : c \in Chans} :
        cb.kind = "sel"}

\* Under one token at most one case sees its callback run.
OneCallbackPerToken ==
    \A n, m \in 1..Len(fired) : fired[n].tok = fired[m].tok => n = m

\* Under one token at most one channel operation is committed.
OneCommitPerToken ==
    \A n, m \in 1..Len(fired) :
        (fired[n].tok = fired[m].tok /\ fired[n].ok /\ fired[m].ok) => n = m

\* Once a case's callback has run under the token of a wait, no callback of
\* the Select is left in a queue; and none is left while no token is in the
\* slot.
OthersWithdrawn ==
    /\ semaphore = NoToken => Registered = {}
    /\ \A cb \in Registered :
           /\ cb.tok = semaphore.id
           /\ FiredUnder(cb.tok) = {}

\* C10: at most one per wait.  Across one wait (and one poll) at most one
\* case sees its callback run and at most one channel operation is
\* committed, and once that has happened every other callback the Select
\* registered for the wait has been withdrawn from the queues.
C10_AtMostOne == OneCallbackPerToken /\ OneCommitPerToken /\ OthersWithdrawn

\* ---- C11
\* The callbacks a Select has put on the queues of the channels.
SelectCallbacks ==
    {cb \in UNION {{sends[c][n] : n \in 1..Len(sends[c])} \cup
                   {recvs[c][n] : n \in 1..Len(recvs[c])} : c \in Chans} :
        cb.kind = "sel"}

FirstFired(id, i, ok) ==
    /\ id \in 1..Len(waits)
    /\ waits[id].kind = "wait"
    /\ waits[id].token # NoToken
    /\ \E n \in 1..Len(fired) :
           /\ fired[n] = [tok |-> waits[id].token.id, case |-> i, ok |-> ok]
           /\ \A k \in 1..(n - 1) : fired[k].tok # waits[id].token.id
    /\ waits[id].inner =
           IF cases[i].type = "Sender" /\ ~ok
           THEN Settle(PendingPromise, "rejected", Undefined,
                       SendOnClosedChannelError)
           ELSE Settle(PendingPromise, "resolved", i, NoErr)

WaitResolved(id, i) ==
    id \in 1..Len(waits) /\ waits[id].st = "resolved" /\ waits[id].val = i
WaitRejected(id, e) ==
    id \in 1..Len(waits) /\ waits[id].st = "rejected" /\ waits[id].err = e

\* The cancellation handle given to wait id has fired.
SignalFired(id) == id \in 1..Len(waits) /\ waits[id].signal = "aborted"

\* recv on the receive case a wait resolved with yields what its callback
\* was given: a value delivered on the channel, or the closed marker.
RecvYieldsDelivered ==
    \A id \in 1..Len(waits) : \A i \in 1..Len(cases) :
        (/\ waits[id].kind = "wait" /\ WaitResolved(id, i)
         /\ next = i /\ cases[i].type = "Receiver")
        => /\ cs[i].ok \in {"true", "false"}
           /\ selRecv(W, i) = Return(consume(W, i), cs[i].next, cs[i].ok = "false")
           /\ cs[i].ok = "true" => InSeq(delivered[cases[i].ch], cs[i].next)
           /\ cs[i].ok = "false" => cs[i].next = ClosedValue(cases[i].ch)

\* C12: a suspended wait wakes for the first completion.  Unless the
\* cancellation handle fires, whatever case is the first to complete under
\* a wait (a value or the close of the channel
\* for a receive case, a taker or the close of the channel for a send case,
\* the settlement of an external value), the wait is eventually resolved
\* with the index of that case; and recv on a receive case then yields the
\* delivered value.
C12_WakesForFirst ==
    /\ \A id \in 1..MaxCalls : \A i \in 1..2 : \A ok \in BOOLEAN :
           FirstFired(id, i, ok) ~> (WaitResolved(id, i) \/ SignalFired(id))
    /\ []RecvYieldsDelivered

\* C12 amended: as C12, but a send case whose channel closes makes the wait
\* reject with SendOnClosedChannelError instead.
C12_WakesForFirstAmended ==
    /\ \A id \in 1..MaxCalls : \A i \in 1..2 : \A ok \in BOOLEAN :
           FirstFired(id, i, ok) ~>
               IF cases[i].type = "Sender" /\ ~ok
               THEN WaitRejected(id, SendOnClosedChannelError) \/ SignalFired(id)
               ELSE WaitResolved(id, i) \/ SignalFired(id)
    /\ []RecvYieldsDelivered

\* C12 is seen at work: a wait that was suspended has been resolved with a
\* receive case, the first to complete, whose value is there for recv.
C12_Witness ==
    \E id \in 1..Len(waits) : \E i \in 1..Len(cases) :
        /\ FirstFired(id, i, TRUE)
        /\ cases[i].type = "Receiver"
        /\ WaitResolved(id, i)
        /\ next = i
        /\ cs[i].ok = "true"

\* wait id is suspended with no case completed and none failed, and its
\* cancellation handle has fired.
CancelledWhileSuspended(id) ==
    /\ id \in 1..Len(waits)
    /\ waits[id].kind = "wait"
    /\ waits[id].pc \in {"registering", "suspended"}
    /\ waits[id].inner.st = "pending"
    /\ waits[id].signal = "aborted"

\* C13: cancellation aborts the wait with the supplied reason.  When the
\* cancellation handle of a wait fires while the wait is suspended with no
\* case ready, the promise of the wait is eventually rejected, with exactly
\* the reason of the cancellation, and stays so.
C13_CancelRejects ==
    \A id \in 1..MaxCalls :
        CancelledWhileSuspended(id) ~> []WaitRejected(id, AbortReason)

\* C13 is seen at work: a wait that suspended (it was given a token) has
\* been rejected with the reason of its handle, no case having fired.
C13_Witness ==
    \E id \in 1..Len(waits) :
        /\ waits[id].token # NoToken
        /\ FiredUnder(waits[id].token.id) = {}
        /\ waits[id].pc = "done"
        /\ waits[id].signal = "aborted"
        /\ WaitRejected(id, AbortReason)

\* The step is a call of poll that returned val (0: undefined).
PollReturns(val) ==
    /\ Len(waits') = Len(waits) + 1
    /\ waits'[Len(waits')].kind = "poll"
    /\ waits'[Len(waits')].ret = "return"
    /\ waits'[Len(waits')].val = val

\* No callback of the select is on a queue or kept by a case, and the slot
\* of the token is empty.
NoResidue ==
    /\ \A c \in Chans : \A n \in 1..Len(sends[c]) : sends[c][n].kind # "sel"
    /\ \A c \in Chans : \A n \in 1..Len(recvs[c]) : recvs[c][n].kind # "sel"
    /\ \A i \in 1..Len(cases) : cs[i].cb = NoCallback
    /\ semaphore = NoToken

CallReturned(i) ==
    \E id \in 1..Len(waits) : waits[id].ret = "return" /\ waits[id].val = i

\* What recv(case i) gives while no wait is in progress: nothing but for the
\* case that #next names, which a poll or a wait returned; 'case not found'
\* for a case that is not of the select (i = 0), 'case not ready' for a case
\* of the select that #next does not name.
RecvOnlyNext ==
    ~waiting =>
        /\ selRecv(W, 0) = Throw(W, NotFoundError)
        /\ \A i \in 1..Len(cases) :
               /\ i # next => selRecv(W, i) = Throw(W, NotReadyError)
               /\ (~selRecv(W, i).threw \/ selRecv(W, i).err = ExternalError)
                      => i = next /\ CallReturned(i) /\ cs[i].ok # "undefined"

\* The step is a recv that gave the result of case i (the value, the closed
\* marker, or the reason of a rejected external value).
RecvGives(i) ==
    /\ next = i /\ ~waiting
    /\ selRecv(W, i).w = W'
    /\ ~selRecv(W, i).threw \/ selRecv(W, i).err = ExternalError

\* C15: recv gives a result only for the case that the last poll or wait
\* returned and that was not consumed since.  A case that is not of the
\* select fails with 'case not found', a case that #next does not name with
\* 'case not ready'; and a recv that gave a result clears the markers of the
\* case and #next, so that a second recv of the case fails.
C15_RecvOnlyReady ==
    /\ []RecvOnlyNext
    /\ [][\A i \in 1..Len(cases) : RecvGives(i) =>
              /\ next' = 0
              /\ cs'[i].ok = "undefined" /\ cs'[i].next = Undefined
              /\ selRecv(W, i).w.next = 0
              /\ selRecv(selRecv(W, i).w, i) =
                     Throw(selRecv(W, i).w, NotReadyError)]_vars

\* C15 is seen at work: the last call, a poll, returned a receive case, recv
\* has consumed its result, and a second recv would fail.
C15_Witness ==
    /\ Len(waits) > 0
    /\ waits[Len(waits)].kind = "poll"
    /\ waits[Len(waits)].ret = "return"
    /\ waits[Len(waits)].val \in 1..Len(cases)
    /\ cases[waits[Len(waits)].val].type = "Receiver"
    /\ next = 0
    /\ cs[waits[Len(waits)].val].ok = "undefined"
    /\ selRecv(W, waits[Len(waits)].val).err = NotReadyError

\* The external-value case i has been taken out of the pending set.
Spliced(i) == cases[i].type = "Promise" /\ cs[i].pidx = 0

\* Every pending case knows its position, and every channel case is pending.
PendingStamped ==
    /\ \A k \in 1..Len(pending) : cs[pending[k]].pidx = k
    /\ \A i \in 1..Len(cases) :
           /\ cs[i].pidx # 0 => cs[i].pidx \in 1..Len(pending) /\ pending[cs[i].pidx] = i
           /\ cases[i].type # "Promise" => cs[i].pidx # 0
           /\ Spliced(i) => next # i

\* C16: external-value cases are one-shot.  A recv that consumes a settled
\* external-value case (resolved or rejected) takes it out of the pending
\* set: the set has one case less, the cases behind it move up by one, the
\* others stay; from then on no poll and no wait returns its index.  A recv
\* of a channel case leaves the pending set as it is, and channel cases are
\* always pending.
C16_OneShot ==
    /\ []PendingStamped
    /\ [][\A i \in 1..Len(cases) :
            /\ (RecvGives(i) /\ cases[i].type = "Promise") =>
                   /\ Len(pending') = Len(pending) - 1
                   /\ Spliced(i)'
                   /\ \A k \in 1..Len(pending') : pending'[k] # i
                   /\ \A j \in 1..Len(cases) : j # i =>
                          cs'[j].pidx = IF cs[j].pidx > cs[i].pidx
                                        THEN cs[j].pidx - 1 ELSE cs[j].pidx
            /\ (RecvGives(i) /\ cases[i].type # "Promise") => pending' = pending
            /\ Spliced(i) => /\ Spliced(i)'
                              /\ \A id \in 1..Len(waits') :
                                     (/\ id \in 1..Len(waits) => waits[id].ret = ""
                                      /\ waits'[id].ret = "return")
                                     => waits'[id].val # i]_vars

\* C16 is seen at work: an external-value case was consumed and spliced, the
\* other case is alone in the pending set, at position 1, and a call made
\* since (the last one) has returned the other case.
C16_Witness ==
    \E i \in 1..Len(cases) : \E j \in 1..Len(cases) :
        /\ Spliced(i) /\ j # i
        /\ cs[i].ok = "undefined"
        /\ pending = <<j>> /\ cs[j].pidx = 1
        /\ Len(waits) > 1
        /\ waits[Len(waits)].ret = "return" /\ waits[Len(waits)].val = j
        /\ \E id \in 1..(Len(waits) - 1) :
               waits[id].ret = "return" /\ waits[id].val = i

\* wait id is in progress: it has begun to suspend (it was given its token)
\* and the promise it returned has not settled.
InProgress(id) ==
    /\ id \in 1..Len(waits)
    /\ waits[id].kind = "wait"
    /\ waits[id].token # NoToken
    /\ waits[id].st = "pending"

\* The call with outcome r threw 'cases in use' and left the select and the
\* channels as they were.
Refused(r) == r.threw /\ r.err = InUseError /\ r.w = W

\* C17: the reentry guard.  While a wait is in progress, from the moment it
\* begins to suspend until its promise settles, a call of poll, of recv or
\* of wait throws 'cases in use' and changes nothing: the callbacks the wait
\* registered, its token and the in-use flag stay as they are.
C17_ReentryGuard ==
    (\E id \in 1..Len(waits) : InProgress(id)) =>
        /\ \A js \in Randoms(2) : Refused(poll(W, js))
        /\ \A i \in 0..Len(cases) : Refused(selRecv(W, i))
        /\ \A js \in Randoms(2) :
               LET w == waitCall(WithCall(NewCall("wait", "none")), NextCall, js)
               IN /\ w.waits[NextCall].ret = "throw"
                  /\ w.waits[NextCall].err = InUseError
                  /\ w.cs = cs /\ w.next = next /\ w.pending = pending
                  /\ w.semaphore = semaphore /\ w.waiting = waiting
                  /\ w.sends = sends /\ w.recvs = recvs /\ w.buffer = buffer

\* The orders of 1..n.
Orders(n) == {p \in [1..n -> 1..n] : \A a, b \in 1..n : p[a] = p[b] => a = b}

\* The shuffle is uniform: the draws are uniform, and every order of the
\* values is the outcome of exactly one sequence of draws.
ShuffleUniform ==
    \A n \in 1..MaxShuffle : \A p \in Orders(n) :
        Cardinality({js \in Randoms(n) :
                        fisherYatesShuffle([k \in 1..n |-> k], js) = p}) = 1

\* Case i is ready: a poll that probes case i alone returns it.
Probe(i) == pollScan([W EXCEPT !.pending = <<i>>], 1)
ReadyCase(i) == ~Probe(i).threw /\ Probe(i).val = i

\* The draws with which poll returns case i.
DrawsFor(i) == {js \in Randoms(Len(pending)) : poll(W, js).val = i}

\* Case i stands before every other ready case in #pending.
FirstReady(i) ==
    \A j \in 1..Len(cases) : (j # i /\ ReadyCase(j)) => cs[i].pidx < cs[j].pidx

\* C18: fair random selection.  The shuffle is uniform; when poll is to
\* shuffle and several cases are ready at once, each of them, wherever it
\* stands in the list of cases, is the one returned for as many of the
\* equally likely draws as any other, and for one at least; when poll is
\* not to shuffle, it returns the ready case that the earlier shuffle put
\* first.
C18_FairSelection ==
    /\ ShuffleUniform
    /\ (~waiting /\ semaphore = NoToken /\ next = 0 /\ Len(pending) = Len(cases)
         /\ \A i \in 1..Len(cases) : ReadyCase(i))
        => IF reshuffle
           THEN \A i, j \in 1..Len(cases) :
                    /\ DrawsFor(i) # {}
                    /\ Cardinality(DrawsFor(i)) = Cardinality(DrawsFor(j))
           ELSE \A i \in 1..Len(cases), js \in Randoms(Len(pending)) :
                    FirstReady(i) => poll(W, js).val = i

\* C18 is seen at work: poll has shuffled and returned the second case of
\* the list while the first case is ready as well.
C18_Witness ==
    /\ Len(waits) > 1
    /\ waits[Len(waits)].kind = "poll"
    /\ waits[Len(waits)].ret = "return"
    /\ waits[Len(waits)].val = 2
    /\ next = 2 /\ reshuffle
    /\ pending = <<2, 1>>
    /\ ReadyCase(1)
    /\ waits[Len(waits) - 1].ret = "return" /\ waits[Len(waits) - 1].val = 1

\* The buffer of channel c holds between 0 and capacity values, in an array
\* of capacity slots; an unbuffered channel holds none.
BufferBound(c) ==
    /\ BufCapacity(buffer[c]) = capacity[c]
    /\ (buffer[c]).size \in 0..capacity[c]
    /\ Len(BufItems(buffer[c])) = (buffer[c]).size
    /\ capacity[c] = 0 => BufItems(buffer[c]) = <<>>

\* No operation on channel c pushes onto a full buffer: none has thrown the
\* error of push, and none of the operations that can be called now would.
NoPushOnFull(c) ==
    /\ \A id \in 1..Len(ops) :
           ops[id].thrown # BufferFullError /\ ops[id].err # BufferFullError
    /\ trySend(W, c, NextId).err # BufferFullError
    /\ tryRecv(W, c).err # BufferFullError
    /\ close(W, c).err # BufferFullError
    /\ \A throws \in BOOLEAN :
           /\ addSender(WithOp(NewOp("addSender", c, "none", throws)), c,
                        FreshSender).err # BufferFullError
           /\ addReceiver(WithOp(NewOp("addReceiver", c, "none", throws)), c,
                          FreshReceiver).err # BufferFullError

\* C19: the buffer bound.  At every instant the buffer of every channel
\* holds at least 0 and at most capacity values, an unbuffered channel holds
\* none, and no operation (the fill of the buffer by receive and by close
\* included) pushes onto a full buffer.
C19_BufferBound ==
    \A c \in Chans : BufferBound(c) /\ NoPushOnFull(c)

\* C19 is seen at work: a buffer is full with a sender queued behind it,
\* after a value was received from the channel and the buffer filled again.
C19_Witness ==
    \E c \in Chans :
        /\ capacity[c] > 0 /\ full(buffer[c])
        /\ Len(sends[c]) > 0
        /\ Len(delivered[c]) > 0
        /\ Len(accepted[c]) = Len(delivered[c]) + capacity[c]

\* Senders wait on channel c only behind a full buffer (or on an unbuffered
\* channel) and with no receiver waiting.
SendersBlocked(c) ==
    Len(sends[c]) # 0 =>
        /\ Len(recvs[c]) = 0
        /\ capacity[c] = 0 \/ full(buffer[c])

\* A callback given to addSender or addReceiver on channel c was called and
\* threw.
CallbackThrew(c) ==
    \E id \in 1..Len(ops) :
        /\ ops[id].ch = c /\ ops[id].throws /\ ops[id].calls > 0

ChanCallCancelled ==
    /\ Len(ops') = Len(ops) + 1
    /\ ops'[Len(ops')].kind \in {"send", "recv"}
    /\ ops'[Len(ops')].signal = "aborted"
    /\ ops'[Len(ops')].calls = 0

\* The step is a call of wait with a signal that has fired already.
WaitCallCancelled ==
    /\ Len(waits') = Len(waits) + 1
    /\ waits'[Len(waits')].kind = "wait"
    /\ waits'[Len(waits')].signal = "aborted"
    /\ waits'[Len(waits')].token = NoToken

\* C21: a handle that was cancelled beforehand has no effect on the state.
\* send, recv and wait called with a signal that has fired fail at once with
\* the reason of the cancellation and change nothing else: no callback is
\* enqueued, no value buffered, delivered or taken, wait makes no poll (the
\* order of the pending cases, the markers and #next stay) and asks for no
\* yield.
C21_PreCancelled ==
    [][/\ ChanCallCancelled =>
            /\ ops' = Append(ops, Reject(WithOp(NewOp(ops'[Len(ops')].kind,
                                                       ops'[Len(ops')].ch,
                                                       "aborted", FALSE)),
                                          NextId, AbortReason).ops[NextId])
            /\ ops'[Len(ops')].st = "rejected"
            /\ ops'[Len(ops')].err = AbortReason
            /\ UNCHANGED <<chanVars, accepted, delivered, selectVars, yieldVars>>
       /\ WaitCallCancelled =>
            /\ waits'[Len(waits')].st = "rejected"
            /\ waits'[Len(waits')].err = AbortReason
            /\ waits'[Len(waits')].pc = "done"
            /\ SubSeq(waits', 1, Len(waits)) = waits
            /\ UNCHANGED <<chanVars, userVars, yieldVars, cases, cs, pending,
                           waiting, reshuffle, next, semaphore, exprs, fired>>]_vars

\* C21 is seen at work: a wait called with a fired signal was rejected with
\* its reason while a result of an earlier call stays unconsumed, and a send
\* called with a fired signal was rejected with its reason.
C21_Witness ==
    /\ \E id \in 2..Len(waits) :
           /\ waits[id].kind = "wait" /\ waits[id].signal = "aborted"
           /\ waits[id].token = NoToken
           /\ WaitRejected(id, AbortReason)
           /\ next # 0 /\ cs[next].ok # "undefined"
    /\ \E id \in 1..Len(ops) :
           /\ ops[id].kind = "send" /\ ops[id].signal = "aborted"
           /\ ops[id].st = "rejected" /\ ops[id].err = AbortReason

\* The step is a call of trySend on channel c that returned ret ("true" or
\* "false"); the value it sends is the number of the operation.
TrySendReturned(c, ret) ==
    /\ Len(ops') = Len(ops) + 1
    /\ ops'[NextId].kind = "trySend"
    /\ ops'[NextId].ch = c
    /\ ops'[NextId].ret = ret

\* The values the buffer of channel c will hold after the step.
BufItemsAfter(c) == BufItems(buffer'[c])

\* C22: trySend on an open channel never blocks (it is one step).  It
\* returns true exactly when the value was handed to the receiver at the
\* head of the receive queue or stored in a free slot of the buffer, and
\* false exactly when no receiver waits and the buffer, once filled from the
\* queued senders, is full (or the channel is unbuffered); when it returns
\* false the value is neither delivered nor stored.
C22_TrySend ==
    [][\A c \in Chans :
        /\ TrySendReturned(c, "true") =>
              /\ open[c]
              /\ IF Len(recvs[c]) # 0
                 THEN /\ recvs'[c] = Tail(recvs[c])
                      /\ delivered'[c] = Append(delivered[c], NextId)
                      /\ buffer'[c] = buffer[c]
                 ELSE /\ capacity[c] # 0
                      /\ Len(BufItemsAfter(c)) > 0
                      /\ BufItemsAfter(c)[Len(BufItemsAfter(c))] = NextId
                      /\ delivered'[c] = delivered[c]
                      /\ Len(sends[c]) = 0 => ~full(buffer[c])
        /\ TrySendReturned(c, "false") =>
              /\ open[c]
              /\ Len(recvs[c]) = 0 /\ recvs'[c] = recvs[c]
              /\ capacity[c] = 0 \/ full(buffer'[c])
              /\ Len(sends[c]) = 0 => buffer'[c] = buffer[c]
              /\ delivered'[c] = delivered[c]
              /\ ~InSeq(BufItemsAfter(c), NextId)
              /\ ~InSeq(accepted'[c], NextId)
        /\ (open[c] /\ Len(recvs[c]) = 0 /\ (capacity[c] = 0 \/ full(buffer[c]))
            /\ Len(ops') = Len(ops) + 1 /\ ops'[NextId].kind = "trySend"
            /\ ops'[NextId].ch = c)
              => ops'[NextId].ret = "false"
        /\ (open[c] /\ (Len(recvs[c]) # 0
                          \/ (capacity[c] # 0 /\ ~full(buffer[c]) /\ Len(sends[c]) = 0))
            /\ Len(ops') = Len(ops) + 1 /\ ops'[NextId].kind = "trySend"
            /\ ops'[NextId].ch = c)
              => ops'[NextId].ret \in {"true", "threw"}]_vars

\* C22 is seen at work: a trySend handed its value to a receiver that was
\* waiting, and a later trySend, finding no receiver and no free slot,
\* returned false.
C22_Witness ==
    \E a, d \in 1..Len(ops) :
        /\ ops[a].kind = "trySend" /\ ops[a].ret = "true"
        /\ \E r \in 1..Len(ops) : /\ ops[r].kind = "recv" /\ ops[r].val = a
                                     /\ ops[r].st = "resolved" /\ r < a
        /\ ops[d].kind = "trySend" /\ ops[d].ret = "false" /\ a < d
        /\ ~InSeq(accepted[ops[d].ch], d)

\* Call id is a wait that was called with a signal that had fired: it was
\* rejected before anything else was done.
PreCancelled(id) ==
    /\ waits[id].kind = "wait"
    /\ waits[id].token = NoToken
    /\ waits[id].ret = "throw" /\ waits[id].err = AbortReason

\* C23: wait yields to the macrotask queue.  The promise of a wait that
\* passed the check of its signal is settled only once the yield generation
\* has moved on from the value it had when the call began; a wait whose body
\* has ended while the generation is still that value is awaiting the yield
\* promise, which is pending.
C23_WaitYields ==
    \A id \in 1..Len(waits) :
        (waits[id].kind = "wait" /\ ~PreCancelled(id)) =>
            /\ waits[id].st # "pending" => yieldGeneration > waits[id].gen
            /\ (waits[id].ret # "" /\ yieldGeneration = waits[id].gen)
                   => /\ waits[id].pc = "yield"
                      /\ yieldHandles[waits[id].yp] = "pending"

\* C23 is seen at work: a wait whose poll found a case ready at once (it
\* never suspended) has resolved, one macrotask after it was called.
C23_Witness ==
    \E id \in 1..Len(waits) :
        /\ waits[id].kind = "wait"
        /\ waits[id].token = NoToken
        /\ waits[id].st = "resolved" /\ waits[id].val # 0
        /\ yieldGeneration = waits[id].gen + 1

\* The step is a call of send or recv, on a channel, that passed the check
\* of its signal.
ChanCallMade ==
    /\ Len(ops') = Len(ops) + 1
    /\ ops'[NextId].kind \in {"send", "recv"}
    /\ ops'[NextId].signal # "aborted"

\* C24: send and recv on a channel yield to the macrotask queue at least
\* once per call.  The promise of a send or of a recv is never settled in
\* the macrotask turn in which the call was made: when the call returns (one
\* step, wholly inside that turn) its promise is pending.
C24_ChanYields ==
    [][ChanCallMade => ops'[NextId].st = "pending"]_vars

\* The handles that are pending.
PendingHandles == {h \in 1..Len(yieldHandles) : yieldHandles[h] = "pending"}

\* At most one handle is pending, the one yieldToMacrotaskQueue returns; its
\* resolve is the one kept, and one macrotask is scheduled for it, no more.
OneYieldPending ==
    /\ PendingHandles = IF yieldPromise = 0 THEN {} ELSE {yieldPromise}
    /\ yieldResolve = yieldPromise
    /\ macrotasks = IF yieldPromise = 0 THEN 0 ELSE 1

\* The step is a call (by wait) of yieldToMacrotaskQueue.
YieldCalled ==
    /\ Len(waits') = Len(waits) + 1
    /\ waits'[Len(waits')].yp # 0

\* The step is the macrotask tick of yieldComplete.
YieldTick == yieldGeneration' # yieldGeneration

\* C25: the macrotask yield is self-conflating.  A call of
\* yieldToMacrotaskQueue made while a handle is pending returns that handle
\* and schedules no macrotask; a call made when none is pending (the first
\* call, or the first after a completion) makes a new handle, pending, and
\* schedules one macrotask; one tick of that macrotask resolves the pending
\* handle, and with it every caller that holds it is free to go on.
C25_SelfConflating ==
    /\ []OneYieldPending
    /\ [][/\ (YieldCalled /\ yieldPromise # 0) =>
               /\ waits'[Len(waits')].yp = yieldPromise
               /\ UNCHANGED yieldVars
          /\ (YieldCalled /\ yieldPromise = 0) =>
               /\ waits'[Len(waits')].yp = Len(yieldHandles) + 1
               /\ yieldHandles' = Append(yieldHandles, "pending")
               /\ yieldPromise' = waits'[Len(waits')].yp
               /\ macrotasks' = macrotasks + 1
          /\ YieldTick =>
               /\ yieldPromise # 0 /\ yieldPromise' = 0
               /\ yieldHandles' = [yieldHandles EXCEPT ![yieldPromise] = "resolved"]
               /\ macrotasks' = macrotasks - 1
               /\ \A id \in 1..Len(waits) :
                      waits[id].yp = yieldPromise
                          => yieldHandles'[waits[id].yp] = "resolved"]_vars

\* C25 is seen at work: two calls of wait made in one turn held the same
\* handle, the only one created, and one tick has let both of them settle.
C25_Witness ==
    \E a, b \in 1..Len(waits) :
        /\ a # b
        /\ waits[a].yp # 0 /\ waits[a].yp = waits[b].yp
        /\ waits[a].st # "pending" /\ waits[b].st # "pending"
        /\ Len(yieldHandles) = 1 /\ yieldGeneration = 1

\* ---------------------------------------------------------------------
\* Construction of Selects from case records (src/case.ts, src/select.ts)

MaxRecords == 3
MaxSelects == 3
MaxInput == 2

\* An element of the constructor's input that is not a case record (a
\* PromiseLike or a plain value); a case record is named by its position in
\* records.
RawValue == 0

\* newSelectCase(type, ...) as called by recv, send and wait: cidx is set
\* later (0 stands for undefined).
newSelectCase(type) == [type |-> type, cidx |-> 0]

\* mapPendingValue without its check of cidx.
mapPendingValueReuse(m, v, i) ==
    IF v = RawValue
    THEN [m EXCEPT !.records = Append(@, [newSelectCase("Promise") EXCEPT !.cidx = i]),
                   !.out = Append(@, Len(m.records) + 1)]
    ELSE [m EXCEPT !.records[v].cidx = i, !.out = Append(@, v)]

\* mapPendingValue(v, i), on m = [records, out, threw]: a value that is not
\* a case is wrapped by wait(v); a case whose cidx is set throws; else cidx is
\* set to i. (The callbacks it builds are those of the Select actions.)
mapPendingValue(m, v, i) ==
    IF v = RawValue
    THEN [m EXCEPT !.records = Append(@, [newSelectCase("Promise") EXCEPT !.cidx = i]),
                   !.out = Append(@, Len(m.records) + 1)]
    ELSE IF m.records[v].cidx # 0
         THEN [m EXCEPT !.threw = TRUE]
         ELSE [m EXCEPT !.records[v].cidx = i, !.out = Append(@, v)]

\* cases.map(mapPendingValue), from position i; a throw ends the map.
RECURSIVE mapPendingValues(_, _, _)
mapPendingValues(m, input, i) ==
    IF i > Len(input) \/ m.threw THEN m
    ELSE mapPendingValues(mapPendingValue(m, input[i], i), input, i + 1)

\* The inputs of the constructor: lists of case records and raw values.
Inputs ==
    UNION {[1..n -> {RawValue} \cup (1..Len(records))] : n \in 0..MaxInput}

\* recv(from), send(to, expr) or wait(value)
NewCase(type) ==
    /\ Len(records) < MaxRecords
    /\ records' = Append(records, newSelectCase(type))
    /\ UNCHANGED <<chanVars, userVars, selectVars, yieldVars, selects>>

\* new Select(input)
Construct(input) ==
    /\ Len(selects) < MaxSelects
    /\ \E m \in {mapPendingValues([records |-> records, out |-> <<>>,
                                   threw |-> FALSE], input, 1)} :
           /\ records' = m.records
           /\ selects' = Append(selects,
                  [input |-> input, threw |-> m.threw,
                   err |-> IF m.threw THEN CaseReusedError ELSE NoErr,
                   cases |-> IF m.threw THEN <<>> ELSE m.out])
    /\ UNCHANGED <<chanVars, userVars, selectVars, yieldVars>>

ConsNext ==
    \/ \E type \in {"Receiver", "Sender", "Promise"} : NewCase(type)
    \/ \E input \in Inputs : Construct(input)

ConsSpec == Init /\ [][ConsNext]_vars

\* A Select is constructed in this step.
Constructed == Len(selects') = Len(selects) + 1

\* Position k of the input holds a case record whose cidx was set before the
\* call, or that an earlier position of the input holds too.
Reused(input, k) ==
    /\ input[k] # RawValue
    /\ \/ records[input[k]].cidx # 0
       \/ \E j \in 1..(k - 1) : input[j] = input[k]

\* C27: the constructor throws 'case reused' exactly when its input holds a
\* case record that has a cidx already or that is listed twice; otherwise
\* every case of the Select has its position in the input as cidx; a cidx
\* that is set never changes, and no case record is a case of two Selects or
\* twice a case of one.
C27_CaseReused ==
    /\ [][Constructed =>
            LET c == selects'[Len(selects')]
            IN /\ c.threw <=> \E k \in 1..Len(c.input) : Reused(c.input, k)
               /\ c.threw => c.err = CaseReusedError
               /\ ~c.threw =>
                     /\ Len(c.cases) = Len(c.input)
                     /\ \A k \in 1..Len(c.cases) :
                           /\ records'[c.cases[k]].cidx = k
                           /\ c.input[k] # RawValue => c.cases[k] = c.input[k]
                           /\ c.input[k] = RawValue => c.cases[k] > Len(records)]_vars
    /\ [][\A r \in 1..Len(records) :
             records[r].cidx # 0 => records'[r].cidx = records[r].cidx]_vars
    /\ [](\A a, b \in 1..Len(selects) : \A j \in 1..Len(selects[a].cases) :
             \A k \in 1..Len(selects[b].cases) :
                 selects[a].cases[j] = selects[b].cases[k] => (a = b /\ j = k))

\* A Select of two cases was constructed, then a record of that Select was
\* refused, then a fresh record that is listed twice was refused.
C27_Witness ==
    /\ Len(selects) = 3
    /\ ~selects[1].threw /\ Len(selects[1].cases) = 2
    /\ selects[2].threw /\ selects[2].err = CaseReusedError
    /\ selects[2].input[1] \in {selects[1].cases[k] : k \in 1..2}
    /\ selects[3].threw /\ Len(selects[3].input) = 2
    /\ selects[3].input[1] = selects[3].input[2]
    /\ selects[3].input[1] \notin {selects[1].cases[k] : k \in 1..2}
    /\ selects[3].input[1] # selects[2].input[1]

\* recv can be called for the external-value case i: no wait is in progress
\* and i is the case that the last poll or wait returned.
ExternalDue(i) ==
    /\ cases[i].type = "Promise"
    /\ ~waiting /\ next = i
    /\ cs[i].pidx # 0

\* C26: recv on an external-value case that resolved returns its value with
\* done = true; on one that was rejected it throws the reason stored.
C26_ExternalRecv ==
    \A i \in 1..Len(cases) :
        ExternalDue(i) =>
            /\ cs[i].ok = "true" =>
                   /\ ~selRecv(W, i).threw
                   /\ selRecv(W, i).val = ExternalValue(i)
                   /\ selRecv(W, i).flag = TRUE
            /\ cs[i].ok = "false" =>
                   /\ selRecv(W, i).threw
                   /\ selRecv(W, i).val = ExternalReason(i)

\* The callbacks of send cases that were told ok = true under their token:
\* the sends of the Select that were committed.
SendsCommitted ==
    {n \in 1..Len(fired) : cases[fired[n].case].type = "Sender" /\ fired[n].ok}

\* A callback of the Select ran under the live token in this step.
CallbackFired == Len(fired') = Len(fired) + 1

\* C28: expr is evaluated once for every send of the Select that is committed
\* (the callback of the send case told ok = true under the live token), in
\* the step that commits it and after the token was given up, and at no
\* other time: not when a case is probed
\* or registered, not when the send fails, not for a receive case.
C28_ExprWhenSelected ==
    /\ [](exprs = Cardinality(SendsCommitted))
    /\ [][exprs' # exprs =>
            /\ exprs' = exprs + 1
            /\ CallbackFired
            /\ Len(fired') \in SendsCommitted'
            /\ semaphore' = NoToken
            /\ cs'[fired'[Len(fired')].case].ok = "true"]_vars
    /\ [][(CallbackFired /\ Len(fired') \notin SendsCommitted') =>
            exprs' = exprs]_vars

\* A send case was registered by a wait and failed (its channel was closed),
\* a send of the Select was committed, and expr was evaluated once.
C28_Witness ==
    /\ exprs = 1
    /\ \E n, m \in 1..Len(fired) :
           /\ cases[fired[n].case].type = "Sender" /\ ~fired[n].ok
           /\ cases[fired[m].case].type = "Sender" /\ fired[m].ok

\* ---------------------------------------------------------------------
\* The channel on its own, with room for one operation more than in Spec and
\* without abort signals: what close finds in the queues.

MaxFlushOps == 4

FlushTrySend(c) ==
    /\ Len(ops) < MaxFlushOps
    /\ Commit(Returned(trySend(WithOp(NewOp("trySend", c, "none", FALSE)), c, NextId),
                       NextId))

FlushSend(c) ==
    /\ Len(ops) < MaxFlushOps
    /\ Commit(send(WithOp(NewOp("send", c, "none", FALSE)), c, NextId))

FlushRecv(c) ==
    /\ Len(ops) < MaxFlushOps
    /\ Commit(recv(WithOp(NewOp("recv", c, "none", FALSE)), c, NextId))

FlushAddSender(c, throws) ==
    /\ Len(ops) < MaxFlushOps
    /\ Commit(Returned(addSender(WithOp(NewOp("addSender", c, "none", throws)), c,
                                 Callback("user", NextId)), NextId))

FlushAddReceiver(c, throws) ==
    /\ Len(ops) < MaxFlushOps
    /\ Commit(Returned(addReceiver(WithOp(NewOp("addReceiver", c, "none", throws)), c,
                                   Callback("user", NextId)), NextId))

FlushNext ==
    \/ \E c \in Chans : FlushTrySend(c)
    \/ \E c \in Chans : FlushSend(c)
    \/ \E c \in Chans : FlushRecv(c)
    \/ \E c \in Chans, throws \in BOOLEAN : FlushAddSender(c, throws)
    \/ \E c \in Chans, throws \in BOOLEAN : FlushAddReceiver(c, throws)
    \/ \E c \in Chans : TryRecv(c)
    \/ \E c \in Chans : Close(c)

FlushSpec == Init /\ [][FlushNext]_vars

\* The free slots of the buffer of channel c.
FreeSlots(c) == IF capacity[c] = 0 THEN 0 ELSE capacity[c] - buffer[c].size

\* What the flush is to do with the queue q of sender callbacks when free
\* slots are left: the values pushed (a sender sends its own number), the
\* senders skipped because they throw, and the senders left over.
RECURSIVE FlushPlan(_, _)
FlushPlan(q, free) ==
    IF q = <<>> THEN [pushed |-> <<>>, skipped |-> {}, rejected |-> {}]
    ELSE IF free = 0
    THEN [pushed |-> <<>>, skipped |-> {},
          rejected |-> {q[k].id : k \in 1..Len(q)}]
    ELSE IF ops[Head(q).id].throws
    THEN [FlushPlan(Tail(q), free) EXCEPT !.skipped = @ \cup {Head(q).id}]
    ELSE [FlushPlan(Tail(q), free - 1) EXCEPT !.pushed = <<Head(q).id>> \o @]

\* The callback of operation id is called once in this step.
CalledOnce(id) == ops'[id].calls = ops[id].calls + 1

\* C29: when close finds no waiting receiver, the queued senders are flushed
\* in FIFO order into the free slots of the buffer: each is called with
\* ok = true and its value is pushed behind what the buffer holds; a sender
\* that throws is skipped and takes no slot; the senders left once the buffer
\* is full are rejected with SendOnClosedChannelError.  What the closed
\* channel then delivers is what its buffer holds, oldest first.
C29_CloseFlush ==
    /\ [][\A c \in Chans :
            (CloseStep(c) /\ Len(recvs[c]) = 0) =>
                /\ BufItemsAfter(c) =
                       BufItems(buffer[c]) \o FlushPlan(sends[c], FreeSlots(c)).pushed
                /\ accepted'[c] =
                       accepted[c] \o FlushPlan(sends[c], FreeSlots(c)).pushed
                /\ \A id \in 1..Len(ops) :
                       /\ id \in FlushPlan(sends[c], FreeSlots(c)).rejected =>
                              /\ CalledOnce(id)
                              /\ ops'[id].st = "rejected"
                              /\ ops'[id].err = SendOnClosedChannelError
                       /\ (\/ id \in FlushPlan(sends[c], FreeSlots(c)).skipped
                           \/ \E k \in 1..Len(FlushPlan(sends[c], FreeSlots(c)).pushed) :
                                  FlushPlan(sends[c], FreeSlots(c)).pushed[k] = id) =>
                              /\ CalledOnce(id)
                              /\ ops'[id].st = "resolved"
                /\ sends'[c] = <<>>]_vars
    /\ [][\A c \in Chans :
            (~open[c] /\ delivered'[c] # delivered[c]) =>
                /\ buffer[c].size > 0
                /\ delivered'[c] = Append(delivered[c], Head(BufItems(buffer[c])))
                /\ BufItemsAfter(c) = Tail(BufItems(buffer[c]))]_vars

\* Capacity 1: a throwing receiver callback took value 1 and left senders 2
\* and 3 queued behind the free slot; close flushed 2 and rejected 3, and 2
\* was received from the closed channel.
C29_Witness ==
    /\ Len(ops) = 4 /\ capacity[1] = 1 /\ ~open[1]
    /\ ops[4].kind = "addReceiver" /\ ops[4].throws /\ ops[4].val = 1
    /\ ops[2].st = "resolved"
    /\ ops[3].st = "rejected" /\ ops[3].err = SendOnClosedChannelError
    /\ delivered[1] = <<1, 2>>

\* The queue that close notifies: the waiting receivers if there are any,
\* else the queued senders.
CloseQueue(c) == IF Len(recvs[c]) # 0 THEN recvs[c] ELSE sends[c]

\* The positions of CloseQueue(c) whose callback throws an error of its own
\* when called (the others return, or rethrow the error they are handed).
Throwers(c) ==
    {k \in 1..Len(CloseQueue(c)) : ops[CloseQueue(c)[k].id].throws}

\* The outcome r of close on channel c follows the error policy.
ClosePolicy(c, r) ==
    /\ r.w.recvs[c] = <<>> /\ r.w.sends[c] = <<>>
    /\ \A k \in 1..Len(CloseQueue(c)) :
           r.w.ops[CloseQueue(c)[k].id].calls = ops[CloseQueue(c)[k].id].calls + 1
    /\ Throwers(c) = {} => ~r.threw
    /\ Throwers(c) # {} =>
           /\ r.threw
           /\ \E k \in Throwers(c) :
                  /\ \A j \in Throwers(c) : j <= k
                  /\ r.err = UserErrorOf(CloseQueue(c)[k].id)

\* C30: close calls every queued callback once even when callbacks throw,
\* and then throws the error of the last callback that threw one; a sender
\* callback that rethrows the SendOnClosedChannelError it was handed is not
\* counted, and close returns normally when nothing else was thrown.
C30_CloseErrors ==
    [][\A c \in Chans :
          CloseStep(c) =>
              \A r \in {close(W, c)} :
                  /\ ClosePolicy(c, r)
                  /\ ops' = r.w.ops]_vars

\* An unbuffered channel was closed with three senders queued: the second
\* threw an error of its own, the first and the third rethrew the error they
\* were handed; each was called once.
C30_Witness ==
    /\ capacity[1] = 0 /\ ~open[1] /\ Len(ops) >= 3
    /\ \A id \in 1..3 :
           /\ ops[id].kind = "addSender"
           /\ ops[id].calls = 1
           /\ ops[id].st = "rejected"
           /\ ops[id].err = SendOnClosedChannelError
           /\ ops[id].throws = (id = 2)

\* Call number id of poll or wait went through poll's scan: it was not
\* refused before it (wait: signal already aborted; both: cases in use).
Scanned(id) ==
    ~(/\ waits[id].token = NoToken /\ waits[id].ret = "throw"
      /\ waits[id].err \in {InUseError, AbortReason, NeverError})

\* The scan of call id ended with an exception (addSender on a closed
\* channel throws).
ScanThrew(id) ==
    /\ Scanned(id)
    /\ waits[id].token = NoToken /\ waits[id].ret = "throw"

\* The last call of poll or wait that went through the scan (0: none yet).
LastScan ==
    IF \E id \in 1..Len(waits) : Scanned(id)
    THEN CHOOSE id \in 1..Len(waits) :
             Scanned(id) /\ \A j \in (id + 1)..Len(waits) : ~Scanned(j)
    ELSE 0

\* The scan of call id found no case ready (a wait then went on to register
\* its cases under a token), or found a send or receive case ready.
FoundNothing(id) ==
    IF waits[id].kind = "poll"
    THEN waits[id].ret = "return" /\ waits[id].val = 0
    ELSE waits[id].token # NoToken
FoundChannelCase(id) ==
    /\ waits[id].token = NoToken /\ waits[id].ret = "return"
    /\ waits[id].val # 0
    /\ cases[waits[id].val].type # "Promise"

\* poll is not refused in this state.
CanPoll == ~waiting /\ semaphore = NoToken

\* After r, the outcome of a poll, #pending is the order p and every pending
\* case is stamped with its position.
PendingIs(r, p) ==
    /\ r.w.pending = p
    /\ \A k \in 1..Len(p) : r.w.cs[p[k]].pidx = k

\* C31: a poll (the poll of wait too) that follows a poll that returned
\* nothing shuffles the pending set, with the draws js, before its scan, and
\* stamps every case with its position.
C31_Reshuffle ==
    (CanPoll /\ LastScan # 0 /\ FoundNothing(LastScan)) =>
        \A js \in Randoms(Len(pending)) : \A r \in {poll(W, js)} :
            PendingIs(r, fisherYatesShuffle(pending, js))

\* C31, amended: a poll shuffles the pending set before its scan, and stamps
\* every case with its position, exactly when the poll before it returned a
\* send or receive case or threw from its scan; it leaves the order as it is
\* on the first poll after construction, after a poll that returned nothing
\* and after a poll that returned an external-value case.
C31_ReshuffleAmended ==
    CanPoll =>
        \A js \in Randoms(Len(pending)) : \A r \in {poll(W, js)} :
            IF LastScan # 0 /\ (FoundChannelCase(LastScan) \/ ScanThrew(LastScan))
            THEN PendingIs(r, fisherYatesShuffle(pending, js))
            ELSE PendingIs(r, pending)

\* A poll returned a receive or send case and the next poll, which shuffled,
\* has returned; both cases are still pending.
C31_Witness ==
    /\ Len(waits) = 2 /\ Len(pending) = 2
    /\ waits[1].kind = "poll" /\ FoundChannelCase(1)
    /\ waits[2].kind = "poll" /\ waits[2].ret = "return"

\* ---------------------------------------------------------------------
\* The channel with callbacks that are given to addSender / addReceiver more
\* than once, so that a queue can hold the same callback twice.

\* ch.addSender(cb) with the callback that operation id gave to addSender
ReAddSender(id) ==
    /\ Len(ops) < MaxOps
    /\ id \in 1..Len(ops)
    /\ ops[id].kind = "addSender"
    /\ Commit(Returned(addSender(WithOp([NewOp("addSenderAgain", ops[id].ch, "none",
                                               ops[id].throws) EXCEPT !.val = id]),
                                 ops[id].ch, Callback("user", id)), NextId))

\* ch.addReceiver(cb) with the callback that operation id gave to
\* addReceiver
ReAddReceiver(id) ==
    /\ Len(ops) < MaxOps
    /\ id \in 1..Len(ops)
    /\ ops[id].kind = "addReceiver"
    /\ Commit(Returned(addReceiver(WithOp([NewOp("addReceiverAgain", ops[id].ch, "none",
                                                 ops[id].throws) EXCEPT !.val = id]),
                                   ops[id].ch, Callback("user", id)), NextId))

RemNext ==
    \/ \E c \in Chans : TrySend(c)
    \/ \E c \in Chans : TryRecv(c)
    \/ \E c \in Chans, throws \in BOOLEAN : AddSender(c, throws)
    \/ \E c \in Chans, throws \in BOOLEAN : AddReceiver(c, throws)
    \/ \E id \in 1..MaxOps : ReAddSender(id)
    \/ \E id \in 1..MaxOps : ReAddReceiver(id)
    \/ \E id \in 1..MaxOps : RemoveSender(id)
    \/ \E id \in 1..MaxOps : RemoveReceiver(id)
    \/ \E c \in Chans : Close(c)

RemSpec == Init /\ [][RemNext]_vars

\* q2 is q with the last occurrence of cb taken out and the other entries in
\* the order they had; q itself when cb is not in q.
RemovalOf(q, cb, q2) ==
    IF \A k \in 1..Len(q) : q[k] # cb THEN q2 = q
    ELSE \E i \in 1..Len(q) :
             /\ q[i] = cb
             /\ \A j \in (i + 1)..Len(q) : q[j] # cb
             /\ Len(q2) = Len(q) - 1
             /\ \A j \in 1..Len(q2) : q2[j] = IF j < i THEN q[j] ELSE q[j + 1]

\* cb stands in q at most once.
AtMostOnce(q, cb) == Cardinality({k \in 1..Len(q) : q[k] = cb}) <= 1

\* C32: removeSender(cb) and removeReceiver(cb) take the last occurrence of
\* cb out of their queue, keep the order of the other entries and change
\* nothing else (cb is not called, the buffer is as it was); with cb absent
\* they change nothing at all, so that removing twice is as removing once.
C32_RemoveLast ==
    \A c \in Chans, id \in 1..MaxOps :
        /\ \A r \in {removeSender(W, c, Callback("user", id))} :
               /\ RemovalOf(sends[c], Callback("user", id), r.sends[c])
               /\ r = [W EXCEPT !.sends[c] = r.sends[c]]
               /\ AtMostOnce(sends[c], Callback("user", id)) =>
                      removeSender(r, c, Callback("user", id)) = r
        /\ \A r \in {removeReceiver(W, c, Callback("user", id))} :
               /\ RemovalOf(recvs[c], Callback("user", id), r.recvs[c])
               /\ r = [W EXCEPT !.recvs[c] = r.recvs[c]]
               /\ AtMostOnce(recvs[c], Callback("user", id)) =>
                      removeReceiver(r, c, Callback("user", id)) = r

\* The callback of operation 1 was queued, then that of operation 2, then
\* that of operation 1 again; removeSender took out the last of the three
\* and called nothing.
C32_Witness ==
    /\ Len(ops) = 3
    /\ ops[1].kind = "addSender" /\ ops[1].ret = "true" /\ ops[1].calls = 0
    /\ ops[2].kind = "addSender" /\ ops[2].ret = "true" /\ ops[2].calls = 0
    /\ ops[3].kind = "addSenderAgain" /\ ops[3].val = 1 /\ ops[3].ret = "true"
    /\ open[1]
    /\ sends[1] = <<Callback("user", 1), Callback("user", 2)>>

\* ---------------------------------------------------------------------
\* A Select whose locked callbacks are also called by a holder that kept
\* them after they were removed (a misuse of the channel protocol).

MaxStale == 1

\* The identities that NewToken gives out.
TokenIds == 1..((MaxCalls + 1) * 3)

StaleOps == {n \in 1..Len(ops) : ops[n].kind = "stale"}

\* The locked callback of case i bound to the token tok, which is not the
\* token in the slot, is called: with (undefined, true) or (err, false) for a
\* send case, with (value, ok) for a receive case.
StaleWakeup(i, tok, ok) ==
    /\ Cardinality(StaleOps) < MaxStale
    /\ i \in 1..Len(cases)
    /\ tok # semaphore.id
    /\ \/ /\ cases[i].type = "Sender"
          /\ Commit(Returned(
                 InvokeSender(WithOp(NewOp("stale", cases[i].ch, "none", FALSE)),
                              LockedCallback(i, [id |-> tok, stop |-> FALSE]),
                              IF ok THEN NoErr ELSE SendOnClosedChannelError, ok),
                 NextId))
       \/ /\ cases[i].type = "Receiver"
          /\ Commit(Returned(
                 InvokeReceiver(WithOp(NewOp("stale", cases[i].ch, "none", FALSE)),
                                LockedCallback(i, [id |-> tok, stop |-> FALSE]),
                                NextId, ok),
                 NextId))

StaleNext ==
    \/ \E js \in Randoms(2) : Poll(js)
    \/ \E js \in Randoms(2) : Wait("none", js)
    \/ \E id \in 1..MaxCalls : Register(id)
    \/ \E id \in 1..MaxCalls : WaitResume(id)
    \/ \E id \in 1..MaxCalls : WaitDone(id)
    \/ YieldComplete
    \/ \E i \in 1..2 : SelRecv(i)
    \/ \E c \in SelChans : PeerSend(c)
    \/ \E c \in SelChans : PeerRecv(c)
    \/ \E c \in SelChans : PeerClose(c)
    \/ \E i \in 1..2, tok \in TokenIds, ok \in BOOLEAN : StaleWakeup(i, tok, ok)

StaleSpec == SelInit /\ [][StaleNext]_vars

\* A callback was called with a token that is not in the slot, in this step.
StaleStep == Len(ops') = Len(ops) + 1 /\ ops'[Len(ops')].kind = "stale"

\* C33: a callback of the Select that is called with a token other than the
\* one in the slot (its token was given up, or the slot is empty) throws the
\* protocol-misuse error and changes nothing: not the markers of any case,
\* not the pending result, not any wait, not the channels.
C33_StaleInert ==
    [][StaleStep =>
          /\ ops'[Len(ops')].ret = "threw"
          /\ ops'[Len(ops')].thrown = MisuseError
          /\ UNCHANGED <<chanVars, accepted, delivered, selectVars, yieldVars>>]_vars

\* A stale callback was called and refused, and a wait that suspended under
\* its token has been resolved by the close of a channel.
C33_Witness ==
    /\ Len(ops) = 1 /\ Len(waits) >= 1
    /\ ops[1].kind = "stale" /\ ops[1].thrown = MisuseError
    /\ waits[1].kind = "wait" /\ waits[1].token # NoToken
    /\ waits[1].st = "resolved"
    /\ cs[waits[1].val].ok = "false"

\* ---------------------------------------------------------------------
\* A Select constructed in a program that has yielded before: the yield
\* generation starts at 0, one below the maximum, or at the maximum.

StartGenerations == {0, MaxSafeInteger - 1, MaxSafeInteger}

GenInit ==
    /\ capacity \in [{1} -> 0..MaxSelCap]
    /\ newDefaultValue = [c \in Chans |-> TRUE]
    /\ buffer = [c \in Chans |-> NewCircularBuffer(capacity[c])]
    /\ open = [c \in Chans |-> TRUE]
    /\ sends = [c \in Chans |-> <<>>]
    /\ recvs = [c \in Chans |-> <<>>]
    /\ ops = <<>>
    /\ accepted = [c \in Chans |-> <<>>]
    /\ delivered = [c \in Chans |-> <<>>]
    /\ \E cs0 \in PromConfigs, js \in Randoms(2), g \in StartGenerations :
           NewSelectAt(cs0, fisherYatesShuffle(<<1, 2>>, js), g)

GenSpec == GenInit /\ [][WakeNext]_vars

\* The macrotask of a yield runs in this step.
TickStep == macrotasks' = macrotasks - 1

\* C34: a completed macrotask yield takes the generation from g to g + 1,
\* and from the maximum safe integer to the minimum safe integer; no other
\* step changes the generation (a wait reads it and asks for a yield without
\* changing it).
C34_Generation ==
    /\ [][TickStep =>
             yieldGeneration' = IF yieldGeneration = MaxSafeInteger
                                THEN -MaxSafeInteger
                                ELSE yieldGeneration + 1]_vars
    /\ [][~TickStep => yieldGeneration' = yieldGeneration]_vars

\* A wait that read the maximum generation has settled after the generation
\* wrapped to the minimum.
C34_Witness ==
    /\ yieldGeneration = -MaxSafeInteger
    /\ Len(waits) >= 1 /\ waits[1].kind = "wait"
    /\ waits[1].gen = MaxSafeInteger
    /\ waits[1].st = "resolved"

\* The callback of operation id is called in this step.
Invoked(id) == ops'[id].calls = ops[id].calls + 1

\* The signal of operation id fires in this step.
SignalFires(id) == ops[id].signal = "idle" /\ ops'[id].signal = "aborted"

\* The step does nothing but take callbacks out of the queues (removeSender,
\* removeReceiver).
RemovalStep == UNCHANGED <<buffer, open, ops, accepted, delivered>>

\* C35: a receiver callback leaves the receive queue only by being called
\* (with a value, or with ok = false at close), by removeReceiver or by the
\* cancellation of its recv; so a receiver that was paired with a sender
\* callback that throws is still queued or has been called.
C35_ReceiverNotDropped ==
    [][\A c \in Chans : \A k \in 1..Len(recvs[c]) :
           (\A j \in 1..Len(recvs'[c]) : recvs'[c][j] # recvs[c][k]) =>
               \/ Invoked(recvs[c][k].id)
               \/ SignalFires(recvs[c][k].id)
               \/ RemovalStep]_vars

\* The callbacks that completed a channel operation under the token of wait
\* number id: a receive case was given a value, a send case's value went out.
CompletedDuring(id) ==
    {n \in 1..Len(fired) : fired[n].tok = waits[id].token.id /\ fired[n].ok}

\* Wait number id was rejected with the reason of its signal.
RejectedByCancel(id) ==
    /\ waits[id].kind = "wait"
    /\ waits[id].st = "rejected"
    /\ waits[id].err = AbortReason

\* C36: when a wait rejects with the cancellation reason, no case of the
\* Select completed a channel operation during that wait.
C36_CancelSwallowsNothing ==
    \A id \in 1..Len(waits) :
        (RejectedByCancel(id) /\ waits[id].token # NoToken) =>
            CompletedDuring(id) = {}


\* The step settles the promise of wait id, which resolves with case i.
WaitReturns(id, i) ==
    /\ waits[id].kind = "wait"
    /\ waits[id].st = "pending"
    /\ waits'[id].st = "resolved"
    /\ waits'[id].val = i

\* recv of case i, called now, is not refused: it returns the result of the
\* case, or throws the rejection the case holds.
Consumable(i) ==
    \A r \in {selRecv(W, i)} :
        /\ r.threw => r.err = ExternalError
        /\ r.val = cs[i].next
        /\ cs[i].ok \in {"true", "false"}

\* C37: when poll or wait returns the index of a receive case or of an
\* external-value case, a recv of that case that follows at once returns the
\* result of the case or throws the stored rejection; it never throws 'case
\* not ready'.
C37_IndexConsumable ==
    [][\A i \in 1..Len(cases) :
           (/\ cases[i].type \in {"Receiver", "Promise"}
            /\ \/ PollReturns(i)
               \/ \E id \in 1..Len(waits) : WaitReturns(id, i))
           => Consumable(i)']_vars


\* The cases in the pending set.
PendingSet == {pending[k] : k \in 1..Len(pending)}

\* No case is twice in the pending set, a case in it holds its own position,
\* and a case outside it holds none.
PendingConsistent ==
    /\ \A a \in 1..Len(pending) : \A b \in 1..Len(pending) :
           pending[a] = pending[b] => a = b
    /\ \A i \in 1..Len(cases) :
           IF i \in PendingSet
           THEN cs[i].pidx \in 1..Len(pending) /\ pending[cs[i].pidx] = i
           ELSE cs[i].pidx = 0

\* The external-value cases that the step removes: a recv gives their result.
RemovedNow ==
    {i \in 1..Len(cases) : cases[i].type = "Promise" /\ RecvGives(i)}

Quiescent == \A id \in 1..Len(waits) : waits[id].pc = "done"

\* A callback of the select is live: a case keeps it (cscb, crcb), or it is
\* on a queue of a channel.
LiveCallbacks ==
    {i \in 1..Len(cases) : cs[i].cb # NoCallback}
    \cup {i \in 1..Len(cases) : \E c \in Chans :
             \/ \E n \in 1..Len(sends[c]) :
                    sends[c][n].kind = "sel" /\ sends[c][n].id = i
             \/ \E n \in 1..Len(recvs[c]) :
                    recvs[c][n].kind = "sel" /\ recvs[c][n].id = i}

\* A call failed one of the checks that should never fail.
ShouldNeverHappen ==
    \E id \in 1..Len(waits) : waits[id].err = NeverError

\* C39: quiescent select state.  While no poll and no wait is executing the
\* slot of the stop token is empty and no case holds a live registered
\* callback; and no call of poll or wait fails a check that should never
\* fail (the token not cleared, cscb or crcb set, an invalid index).
C39_Quiescent ==
    /\ Quiescent => semaphore = NoToken /\ LiveCallbacks = {}
    /\ ~ShouldNeverHappen
    /\ Quiescent => \A js \in Randoms(Len(pending)) :
                        \A r \in {poll(W, js)} : r.threw => r.err # NeverError


\* C39 is seen at work: a wait registered its callbacks under its token, one
\* of them fired, the wait has resolved, and a poll made afterwards has
\* returned; nothing is executing, the slot is empty and no callback of the
\* select is left.
C39_Witness ==
    /\ Len(waits) = 2
    /\ Quiescent
    /\ waits[1].kind = "wait" /\ waits[1].st = "resolved"
    /\ waits[1].token # NoToken
    /\ \E n \in 1..Len(fired) : fired[n].tok = waits[1].token.id
    /\ waits[2].kind = "poll" /\ waits[2].ret = "return"
    /\ Len(cases) = 2
    /\ semaphore = NoToken /\ LiveCallbacks = {}


\* The n-th callback in f committed a send of the select.
SendCommit(f, n) == cases[f[n].case].type = "Sender" /\ f[n].ok

\* The value that send handed over: expr is evaluated once per committed
\* send, and its k-th evaluation gives ExprValue(k).
SentValue(f, n) ==
    ExprValue(Cardinality({m \in 1..n : SendCommit(f, m)}))

\* Among the operations os, a receive of a peer on channel c has been given
\* the value v.
TakenOutside(os, c, v) ==
    \E id \in 1..Len(os) :
        /\ os[id].kind = "recv" /\ os[id].ch = c
        /\ os[id].st = "resolved" /\ ~os[id].done
        /\ os[id].val = v

\* The value v is in the buffer b.
Stored(b, v) == \E k \in 1..b.size : BufItems(b)[k] = v

\* C40: a select never communicates with itself.  In the step in which a
\* send case of the select is selected (its callback is told ok = true), the
\* value it hands over is given to a receive of a peer or stored in the
\* buffer of the channel; it is not handed to a receive case of the select.
C40_NoSelfCommunication ==
    [][\A n \in (Len(fired) + 1)..Len(fired') :
           SendCommit(fired', n) =>
               \/ TakenOutside(ops', cases[fired'[n].case].ch,
                               SentValue(fired', n))
               \/ Stored(buffer'[cases[fired'[n].case].ch],
                         SentValue(fired', n))]_vars

=============================================================================
